---------------------------- MODULE Spec2Model ----------------------------
(***************************************************************************)
(* A model of the upb tokenizer (upb/io/tokenizer.c) and of the stream it  *)
(* reads.  Bytes are the integers 0..255, a text is a sequence of bytes,   *)
(* and the tokenizer, the input stream, the error collector and the trace  *)
(* of consumed bytes are threaded through the operators as one record      *)
(*     w = [t |-> upb_Tokenizer, input |-> stream, errors |-> collector,   *)
(*          trace |-> bytes NextChar consumed].                            *)
(* Every C function that changes state is an operator from w to w (or to   *)
(* a record holding w and the function's result).                          *)
(***************************************************************************)
EXTENDS Integers, Sequences, FiniteSets, TLC

VARIABLES
  t,        \* struct upb_Tokenizer
  input,    \* the upb_ZeroCopyInputStream behind t->input
  errors,   \* what the upb_ErrorCollector has been handed, in order
  trace,    \* the bytes NextChar() has consumed, in order
  data,     \* the in-memory span passed to upb_Tokenizer_New
  op,       \* the public operation that ran last
  ret,      \* what the last upb_Tokenizer_Next returned
  setters,  \* the number of option setter calls so far
  ref,      \* the same operations run on the same bytes read as one chunk
  call      \* the last call of a parsing helper: its arguments and result

vars == <<t, input, errors, trace, data, op, ret, setters, ref, call>>

-----------------------------------------------------------------------------
(* Bounds of the model. *)

\* The longest input, in bytes.
MaxLen == 2

\* The most option setter calls in one run.
MaxSetterCalls == 1

-----------------------------------------------------------------------------
(* Character classes. *)

Whitespace(c) == c = 32 \/ c = 10 \/ c = 9 \/ c = 13 \/ c = 11 \/ c = 12

WhitespaceNoNewline(c) == c = 32 \/ c = 9 \/ c = 13 \/ c = 11 \/ c = 12

\* c < ' ' && c > '\0'; a byte above 0x7F is negative as a signed char and
\* above ' ' as an unsigned one, and fails the test either way.
Unprintable(c) == c < 32 /\ c > 0

Digit(c) == 48 <= c /\ c <= 57

OctalDigit(c) == 48 <= c /\ c <= 55

HexDigit(c) == (48 <= c /\ c <= 57) \/ (97 <= c /\ c <= 102) \/ (65 <= c /\ c <= 70)

Letter(c) == (97 <= c /\ c <= 122) \/ (65 <= c /\ c <= 90) \/ c = 95

Alphanumeric(c) ==
  (97 <= c /\ c <= 122) \/ (65 <= c /\ c <= 90) \/ (48 <= c /\ c <= 57) \/ c = 95

\* a b f n r t v \ ? ' "
Escape(c) == c \in {97, 98, 102, 110, 114, 116, 118, 92, 63, 39, 34}

\* A character class passed as a function pointer is passed here by name.
InClass(f, c) ==
  CASE f = "Whitespace" -> Whitespace(c)
    [] f = "WhitespaceNoNewline" -> WhitespaceNoNewline(c)
    [] f = "Unprintable" -> Unprintable(c)
    [] f = "Digit" -> Digit(c)
    [] f = "OctalDigit" -> OctalDigit(c)
    [] f = "HexDigit" -> HexDigit(c)
    [] f = "Letter" -> Letter(c)
    [] f = "Alphanumeric" -> Alphanumeric(c)
    [] f = "Escape" -> Escape(c)

kTabWidth == 8

-----------------------------------------------------------------------------
(* Tokens. *)

upb_Token_Init ==
  [type |-> "START", line |-> 0, column |-> 0, end_column |-> 0, text |-> <<>>]

\* upb_Token_Copy that forgets the text.
upb_Token_Copy_NoText(des, src) ==
  [des EXCEPT !.type = src.type, !.line = src.line,
              !.column = src.column, !.end_column = src.end_column]

upb_Token_Copy(des, src) ==
  [des EXCEPT !.text = src.text, !.type = src.type, !.line = src.line,
              !.column = src.column, !.end_column = src.end_column]

-----------------------------------------------------------------------------
(* The input stream: a list of non-empty chunks, then chunks of size 0. *)

\* Next(&size) hands out the next chunk; <<>> (size 0) is the end of the stream.
upb_ZeroCopyInputStream_Next(in) ==
  IF in.next <= Len(in.chunks)
    THEN [in |-> [in EXCEPT !.next = @ + 1,
                            !.calls = @ + 1,
                            !.handed = @ + Len(in.chunks[in.next]),
                            !.last_size = Len(in.chunks[in.next])],
          data |-> in.chunks[in.next]]
    ELSE [in |-> [in EXCEPT !.calls = @ + 1,
                            !.calls_after_eof = IF in.eof THEN @ + 1 ELSE @,
                            !.eof = TRUE,
                            !.last_size = 0],
          data |-> <<>>]

\* BackUp(count) takes back the last count bytes the stream handed out.
upb_ZeroCopyInputStream_BackUp(in, count) ==
  [in EXCEPT !.backed = @ + count, !.backup_calls = @ + 1]

NewStream(chunks) ==
  [chunks |-> chunks, next |-> 1, calls |-> 0, calls_after_eof |-> 0,
   eof |-> FALSE, handed |-> 0, last_size |-> 0, backed |-> 0,
   backup_calls |-> 0]

-----------------------------------------------------------------------------
(* Internal helpers. *)

AddErrorAt(w, line, column, message) ==
  [w EXCEPT !.errors = Append(@, <<line, column, message>>)]

AddError(w, message) == AddErrorAt(w, w.t.line, w.t.column, message)

\* int i < size_t n: i is converted to size_t first, and a negative i becomes
\* a value above every buffer size.
IntBelowSize(i, n) == i >= 0 /\ i < n

\* upb_String_Append(t->record_target, bytes): the only target the scanner
\* records to is &t->current.text.
AppendToTarget(w, bytes) ==
  IF w.t.record_target = "current.text"
    THEN [w EXCEPT !.t.current.text = @ \o bytes]
    ELSE w

\* buffer + from, of length n
BufferRange(w, from, n) ==
  IF n <= 0 THEN <<>> ELSE SubSeq(w.t.buffer, from + 1, from + n)

\* Only({e : x \in {v}}) is e with x standing for the value of v: the
\* statements of the code that follow the one that computes v.
Only(S) == CHOOSE x \in S : TRUE

\* Refresh: "If we're in a token, append the rest of the buffer to it."
FlushRecord(w) ==
  IF w.t.record_target # "NULL" /\ IntBelowSize(w.t.record_start, w.t.buffer_size)
    THEN [AppendToTarget(w, BufferRange(w, w.t.record_start,
                                        w.t.buffer_size - w.t.record_start))
            EXCEPT !.t.record_start = 0]
    ELSE w

\* ReadBuffer that does not latch read_error when the stream returns size 0.
ReadBuffer_NoLatch(w) ==
  Only({IF Len(r.data) > 0
          THEN [w EXCEPT !.input = r.in,
                         !.t.buffer = r.data,
                         !.t.buffer_size = Len(r.data),
                         !.t.buffer_pos = 0,
                         !.t.current_char = r.data[1]]
          ELSE [w EXCEPT !.input = r.in,
                         !.t.buffer = <<>>,
                         !.t.buffer_size = 0,
                         !.t.buffer_pos = 0,
                         !.t.current_char = 0]
        : r \in {upb_ZeroCopyInputStream_Next(w.input)}})

\* Refresh: ask the stream for the next buffer; size 0 is the end of the
\* stream (or a read error).
ReadBuffer(w) ==
  Only({IF Len(r.data) > 0
          THEN [w EXCEPT !.input = r.in,
                         !.t.buffer = r.data,
                         !.t.buffer_size = Len(r.data),
                         !.t.buffer_pos = 0,
                         !.t.current_char = r.data[1]]
          ELSE [w EXCEPT !.input = r.in,
                         !.t.buffer = <<>>,
                         !.t.buffer_size = 0,
                         !.t.buffer_pos = 0,
                         !.t.read_error = TRUE,
                         !.t.current_char = 0]
        : r \in {upb_ZeroCopyInputStream_Next(w.input)}})

\* Refresh that forgets to append the rest of the buffer to the record target.
Refresh_NoFlush(w) ==
  IF w.t.read_error THEN [w EXCEPT !.t.current_char = 0] ELSE ReadBuffer(w)

\* Read a new buffer from the input.
Refresh(w) ==
  IF w.t.read_error
    THEN [w EXCEPT !.t.current_char = 0]
    ELSE ReadBuffer(FlushRecord(w))

\* NextChar's counter update with a tab that always adds kTabWidth.
NextColumn_TabAddsWidth(c, column) ==
  IF c = 10 THEN 0
  ELSE IF c = 9 THEN column + kTabWidth
  ELSE column + 1

\* The column after consuming c at column: NextChar's counter update.
NextColumn(c, column) ==
  IF c = 10 THEN 0
  ELSE IF c = 9 THEN column + (kTabWidth - (column % kTabWidth))
  ELSE column + 1

\* NextChar: "Advance to the next character."
Advance(w) ==
  IF w.t.buffer_pos < w.t.buffer_size
    THEN [w EXCEPT !.t.current_char = w.t.buffer[w.t.buffer_pos + 1]]
    ELSE Refresh(w)

\* Consume this character and advance to the next one.
NextChar(w) ==
  Advance([w EXCEPT
             !.t.line = IF w.t.current_char = 10 THEN @ + 1 ELSE @,
             !.t.column = NextColumn(w.t.current_char, @),
             !.t.buffer_pos = @ + 1,
             !.trace = [consumed |-> Append(@.consumed, w.t.current_char),
                        after_eof |-> @.after_eof \/ w.t.read_error]])

\* RecordTo that records from the start of the buffer, not from buffer_pos.
RecordTo_FromBufferStart(w, target) ==
  [w EXCEPT !.t.record_target = target, !.t.record_start = 0]

RecordTo(w, target) ==
  [w EXCEPT !.t.record_target = target, !.t.record_start = w.t.buffer_pos]

StopRecording(w) ==
  [AppendToTarget(w, BufferRange(w, w.t.record_start,
                                 w.t.buffer_pos - w.t.record_start))
     EXCEPT !.t.record_target = "NULL", !.t.record_start = -1]

\* Called when the current character is the first character of a new token.
StartToken(w) ==
  RecordTo([w EXCEPT !.t.current.type = "START",
                     !.t.current.text = <<>>,
                     !.t.current.line = w.t.line,
                     !.t.current.column = w.t.column],
           "current.text")

\* Called when the current character is the first one after the token.
EndToken(w) ==
  Only({[w1 EXCEPT !.t.current.end_column = w1.t.column]
        : w1 \in {StopRecording(w)}})

LookingAt(w, f) == InClass(f, w.t.current_char)

\* The Try* helpers return the world and whether they consumed.
TryConsumeOne(w, f) ==
  IF InClass(f, w.t.current_char)
    THEN [w |-> NextChar(w), ok |-> TRUE]
    ELSE [w |-> w, ok |-> FALSE]

TryConsume(w, c) ==
  IF w.t.current_char = c
    THEN [w |-> NextChar(w), ok |-> TRUE]
    ELSE [w |-> w, ok |-> FALSE]

RECURSIVE ConsumeZeroOrMore(_, _)
ConsumeZeroOrMore(w, f) ==
  IF InClass(f, w.t.current_char) THEN ConsumeZeroOrMore(NextChar(w), f) ELSE w

ConsumeOneOrMore(w, f, err_msg) ==
  IF ~InClass(f, w.t.current_char)
    THEN AddError(w, err_msg)
    ELSE ConsumeZeroOrMore(NextChar(w), f)

-----------------------------------------------------------------------------
(* The sub-consumers: each consumes what follows a token's first byte. *)

\* One step of a chain  !TryConsume...(a) || !TryConsume...(b) || ... :
\* a step is a character class (f) or a set of characters (cs).
StepMatches(step, c) == IF step.f # "" THEN InClass(step.f, c) ELSE c \in step.cs

\* The chain consumes while each step matches and stops at the first that
\* does not; ok says whether every step matched.
RECURSIVE TryConsumeEach(_, _)
TryConsumeEach(w, steps) ==
  IF steps = <<>> THEN [w |-> w, ok |-> TRUE]
  ELSE IF StepMatches(Head(steps), w.t.current_char)
    THEN TryConsumeEach(NextChar(w), Tail(steps))
    ELSE [w |-> w, ok |-> FALSE]

Hex == [f |-> "HexDigit", cs |-> {}]

Chars(S) == [f |-> "", cs |-> S]

\* if (!chain) AddError(t, err_msg): r is what the chain returned.
OrError(r, err_msg) == IF ~r.ok THEN AddError(r.w, err_msg) ELSE r.w

\* What follows the backslash of an escape sequence.
ConsumeEscape(w) ==
  IF Escape(w.t.current_char) THEN NextChar(w)
  ELSE IF OctalDigit(w.t.current_char) THEN NextChar(w)
  ELSE IF w.t.current_char = 120 THEN
    OrError(TryConsumeOne(NextChar(w), "HexDigit"),
            "Expected hex digits for escape sequence.")
  ELSE IF w.t.current_char = 117 THEN
    OrError(TryConsumeEach(NextChar(w), <<Hex, Hex, Hex, Hex>>),
            "Expected four hex digits for \\u escape sequence.")
  ELSE IF w.t.current_char = 85 THEN
    OrError(TryConsumeEach(NextChar(w),
              <<Chars({48}), Chars({48}), Chars({48, 49}), Hex, Hex, Hex, Hex, Hex>>),
            "Expected eight hex digits up to 10ffff for \\U escape sequence")
  ELSE AddError(w, "Invalid escape sequence in string literal.")

RECURSIVE ConsumeString(_, _)

\* ConsumeString returning at the end of the input without an error.
ConsumeString_SilentEnd(w, delimiter) ==
  IF w.t.current_char = 0 THEN w
  ELSE IF w.t.current_char = 10 THEN
    IF ~w.t.allow_multiline_strings
      THEN AddError(w, "String literals cannot cross line boundaries.")
      ELSE ConsumeString(NextChar(w), delimiter)
  ELSE IF w.t.current_char = 92
    THEN ConsumeString(ConsumeEscape(NextChar(w)), delimiter)
  ELSE IF w.t.current_char = delimiter THEN NextChar(w)
  ELSE ConsumeString(NextChar(w), delimiter)

\* ConsumeString taking the newline into the token before it returns.
ConsumeString_TakesNewline(w, delimiter) ==
  IF w.t.current_char = 0 THEN AddError(w, "Unexpected end of string.")
  ELSE IF w.t.current_char = 10 THEN
    IF ~w.t.allow_multiline_strings
      THEN NextChar(AddError(w, "String literals cannot cross line boundaries."))
      ELSE ConsumeString(NextChar(w), delimiter)
  ELSE IF w.t.current_char = 92
    THEN ConsumeString(ConsumeEscape(NextChar(w)), delimiter)
  ELSE IF w.t.current_char = delimiter THEN NextChar(w)
  ELSE ConsumeString(NextChar(w), delimiter)

\* Read and consume a string, ending when the given delimiter is consumed.
ConsumeString(w, delimiter) ==
  IF w.t.current_char = 0 THEN AddError(w, "Unexpected end of string.")
  ELSE IF w.t.current_char = 10 THEN
    IF ~w.t.allow_multiline_strings
      THEN AddError(w, "String literals cannot cross line boundaries.")
      ELSE ConsumeString(NextChar(w), delimiter)
  ELSE IF w.t.current_char = 92
    THEN ConsumeString(ConsumeEscape(NextChar(w)), delimiter)
  ELSE IF w.t.current_char = delimiter THEN NextChar(w)
  ELSE ConsumeString(NextChar(w), delimiter)

\* ConsumeNumber carries the world and is_float as [w, f].

\* A hex number (started with "0x").
ConsumeHex(w) ==
  [w |-> ConsumeOneOrMore(NextChar(w), "HexDigit",
                          "\"0x\" must be followed by hex digits."),
   f |-> FALSE]

\* The octal branch reporting the error once the digits are consumed.
ConsumeOctalTail_ErrorAfter(w) ==
  [w |-> IF LookingAt(w, "Digit")
           THEN AddError(ConsumeZeroOrMore(w, "Digit"),
                         "Numbers starting with leading zero must be in octal.")
           ELSE w,
   f |-> FALSE]

ConsumeOctalTail_NoError(w) ==
  [w |-> ConsumeZeroOrMore(w, "Digit"), f |-> FALSE]

\* An octal number, after ConsumeZeroOrMore(t, OctalDigit).
ConsumeOctalTail(w) ==
  [w |-> IF LookingAt(w, "Digit")
           THEN ConsumeZeroOrMore(
                  AddError(w, "Numbers starting with leading zero must be in octal."),
                  "Digit")
           ELSE w,
   f |-> FALSE]

\* A decimal number, after the first ConsumeZeroOrMore(t, Digit): d is what
\* TryConsume(t, '.') returned.
ConsumeFraction(d) ==
  IF d.ok THEN [w |-> ConsumeZeroOrMore(d.w, "Digit"), f |-> TRUE]
  ELSE [w |-> d.w, f |-> FALSE]

\* if (!TryConsume(t, '-')) TryConsume(t, '+');
ConsumeSign(w) == IF w.t.current_char \in {45, 43} THEN NextChar(w) ELSE w

\* ConsumeNumber without the exponent branch.
ConsumeExponent_NoExponent(n) == n

ConsumeExponent(n) ==
  IF n.w.t.current_char \in {101, 69}
    THEN [w |-> ConsumeOneOrMore(ConsumeSign(NextChar(n.w)), "Digit",
                                 "\"e\" must be followed by exponent."),
          f |-> TRUE]
    ELSE n

\* ConsumeNumber taking an 'f' whatever allow_f_after_float is.
ConsumeFloatSuffix_Always(n) ==
  IF n.w.t.current_char \in {102, 70}
    THEN [w |-> NextChar(n.w), f |-> TRUE]
    ELSE n

ConsumeFloatSuffix(n) ==
  IF n.w.t.allow_f_after_float /\ n.w.t.current_char \in {102, 70}
    THEN [w |-> NextChar(n.w), f |-> TRUE]
    ELSE n

\* The decimal branch of ConsumeNumber.
ConsumeDecimal(w, started_with_dot) ==
  ConsumeFloatSuffix(ConsumeExponent(
    IF started_with_dot
      THEN [w |-> ConsumeZeroOrMore(w, "Digit"), f |-> TRUE]
      ELSE ConsumeFraction(TryConsume(ConsumeZeroOrMore(w, "Digit"), 46))))

\* The checks of ConsumeNumber without the require_space_after_number test.
NumberPostCheck_AlwaysNeedsSpace(n) ==
  [w |-> IF LookingAt(n.w, "Letter")
           THEN AddError(n.w, "Need space between number and identifier.")
         ELSE IF n.w.t.current_char = 46
           THEN IF n.f
                  THEN AddError(n.w,
                         "Already saw decimal point or exponent; can't have another one.")
                  ELSE AddError(n.w, "Hex and octal numbers must be integers.")
         ELSE n.w,
   type |-> IF n.f THEN "FLOAT" ELSE "INTEGER"]

\* The checks ConsumeNumber makes once the number is consumed, and its result:
\* the world and TYPE_FLOAT or TYPE_INTEGER.
NumberPostCheck(n) ==
  [w |-> IF LookingAt(n.w, "Letter") /\ n.w.t.require_space_after_number
           THEN AddError(n.w, "Need space between number and identifier.")
         ELSE IF n.w.t.current_char = 46
           THEN IF n.f
                  THEN AddError(n.w,
                         "Already saw decimal point or exponent; can't have another one.")
                  ELSE AddError(n.w, "Hex and octal numbers must be integers.")
         ELSE n.w,
   type |-> IF n.f THEN "FLOAT" ELSE "INTEGER"]

\* Read and consume a number.
ConsumeNumber(w, started_with_zero, started_with_dot) ==
  NumberPostCheck(
    IF started_with_zero /\ w.t.current_char \in {120, 88} THEN ConsumeHex(w)
    ELSE IF started_with_zero /\ LookingAt(w, "Digit")
      THEN ConsumeOctalTail(ConsumeZeroOrMore(w, "OctalDigit"))
    ELSE ConsumeDecimal(w, started_with_dot))

RECURSIVE SkipToLineEnd(_)
SkipToLineEnd(w) ==
  IF w.t.current_char # 0 /\ w.t.current_char # 10 THEN SkipToLineEnd(NextChar(w))
  ELSE w

\* ConsumeLineComment that consumes one more character without looking at it.
ConsumeLineComment_AlwaysNextChar(w) == NextChar(SkipToLineEnd(w))

\* Consume the rest of a line (content == NULL: nothing is recorded).
ConsumeLineComment(w) == TryConsume(SkipToLineEnd(w), 10).w

RECURSIVE SkipCommentText(_)
SkipCommentText(w) ==
  IF w.t.current_char \notin {0, 42, 47, 10} THEN SkipCommentText(NextChar(w))
  ELSE w

\* TryConsume(t, '*') && TryConsume(t, '/')
CommentEnd == <<Chars({42}), Chars({47})>>

\* The while (true) loop of ConsumeBlockComment (content == NULL): nl, e and d
\* are what TryConsume('\n'), the "*/" chain and TryConsume('/') returned.
RECURSIVE BlockCommentLoop(_, _, _)
BlockCommentLoop(w, start_line, start_column) ==
  Only({
    IF nl.ok THEN
      Only({IF e.ok THEN e.w
            ELSE BlockCommentLoop(e.w, start_line, start_column)
            : e \in {TryConsumeEach(
                       ConsumeZeroOrMore(nl.w, "WhitespaceNoNewline"),
                       CommentEnd)}})
    ELSE
      Only({IF e.ok THEN e.w
            ELSE
              Only({IF d.ok /\ d.w.t.current_char = 42
                      THEN BlockCommentLoop(
                             AddError(d.w,
                               "\"/*\" inside block comment.  Block comments cannot be nested."),
                             start_line, start_column)
                    ELSE IF d.w.t.current_char = 0
                      THEN AddErrorAt(
                             AddError(d.w, "End-of-file inside block comment."),
                             start_line, start_column, "  Comment started here.")
                    ELSE BlockCommentLoop(d.w, start_line, start_column)
                    : d \in {TryConsume(e.w, 47)}})
            : e \in {TryConsumeEach(nl.w, CommentEnd)}})
    : nl \in {TryConsume(SkipCommentText(w), 10)}})

ConsumeBlockComment(w) == BlockCommentLoop(w, w.t.line, w.t.column - 2)

\* TryConsumeCommentStart taking the reader's column for the column of the '/'.
AfterSlash_ColumnOfReader(w) ==
  IF w.t.current_char = 47
    THEN [w |-> NextChar(w), status |-> "LINE_COMMENT"]
  ELSE IF w.t.current_char = 42
    THEN [w |-> NextChar(w), status |-> "BLOCK_COMMENT"]
  ELSE [w |-> [w EXCEPT !.t.current.type = "SYMBOL",
                        !.t.current.text = <<47>>,
                        !.t.current.line = w.t.line,
                        !.t.current.column = w.t.column,
                        !.t.current.end_column = w.t.column + 1],
        status |-> "SLASH_NOT_COMMENT"]

\* TryConsumeCommentStart once the '/' is consumed.
AfterSlash(w) ==
  IF w.t.current_char = 47
    THEN [w |-> NextChar(w), status |-> "LINE_COMMENT"]
  ELSE IF w.t.current_char = 42
    THEN [w |-> NextChar(w), status |-> "BLOCK_COMMENT"]
  ELSE [w |-> [w EXCEPT !.t.current.type = "SYMBOL",
                        !.t.current.text = <<47>>,
                        !.t.current.line = w.t.line,
                        !.t.current.column = w.t.column - 1,
                        !.t.current.end_column = w.t.column],
        status |-> "SLASH_NOT_COMMENT"]

\* If we're at the start of a new comment, consume it and say what kind it is.
TryConsumeCommentStart(w) ==
  IF w.t.comment_style = "CPP" /\ w.t.current_char = 47 THEN AfterSlash(NextChar(w))
  ELSE IF w.t.comment_style = "SH" /\ w.t.current_char = 35
    THEN [w |-> NextChar(w), status |-> "LINE_COMMENT"]
  ELSE [w |-> w, status |-> "NO_COMMENT"]

\* TryConsumeWhitespace returning true whatever report_whitespace is.
TryConsumeWhitespace_AlwaysReports(w) ==
  IF Whitespace(w.t.current_char)
    THEN [w |-> [ConsumeZeroOrMore(NextChar(w), "Whitespace")
                   EXCEPT !.t.current.type = "WHITESPACE"],
          ok |-> TRUE]
  ELSE [w |-> w, ok |-> FALSE]

\* TryConsumeWhitespace without ConsumeZeroOrMore.
TryConsumeWhitespace_OneByte(w) ==
  IF InClass(IF w.t.report_newlines THEN "WhitespaceNoNewline" ELSE "Whitespace",
             w.t.current_char)
    THEN [w |-> [NextChar(w) EXCEPT !.t.current.type = "WHITESPACE"],
          ok |-> w.t.report_newlines \/ w.t.report_whitespace]
  ELSE [w |-> w, ok |-> FALSE]

TryConsumeWhitespace(w) ==
  IF w.t.report_newlines THEN
    IF WhitespaceNoNewline(w.t.current_char)
      THEN [w |-> [ConsumeZeroOrMore(NextChar(w), "WhitespaceNoNewline")
                     EXCEPT !.t.current.type = "WHITESPACE"],
            ok |-> TRUE]
      ELSE [w |-> w, ok |-> FALSE]
  ELSE IF Whitespace(w.t.current_char)
    THEN [w |-> [ConsumeZeroOrMore(NextChar(w), "Whitespace")
                   EXCEPT !.t.current.type = "WHITESPACE"],
          ok |-> w.t.report_whitespace]
  ELSE [w |-> w, ok |-> FALSE]

TryConsumeNewline(w) ==
  IF ~w.t.report_whitespace \/ ~w.t.report_newlines THEN [w |-> w, ok |-> FALSE]
  ELSE IF w.t.current_char = 10
    THEN [w |-> [NextChar(w) EXCEPT !.t.current.type = "NEWLINE"], ok |-> TRUE]
  ELSE [w |-> w, ok |-> FALSE]

-----------------------------------------------------------------------------
(* upb_Tokenizer_Next. *)

\* The tail of upb_Tokenizer_Next without upb_String_Clear.
EndOfInput_KeepsText(w) ==
  [w |-> [w EXCEPT !.t.current.type = "END",
                   !.t.current.line = w.t.line,
                   !.t.current.column = w.t.column,
                   !.t.current.end_column = w.t.column],
   ret |-> FALSE]

\* The tail of upb_Tokenizer_Next: the token stream has ended.
EndOfInput(w) ==
  [w |-> [w EXCEPT !.t.current.type = "END",
                   !.t.current.text = <<>>,
                   !.t.current.line = w.t.line,
                   !.t.current.column = w.t.column,
                   !.t.current.end_column = w.t.column],
   ret |-> FALSE]

\* while (TryConsumeOne(Unprintable) || (!read_error && TryConsume('\0')))
RECURSIVE SkipUnprintable(_)
SkipUnprintable(w) ==
  IF Unprintable(w.t.current_char) THEN SkipUnprintable(NextChar(w))
  ELSE IF ~w.t.read_error /\ w.t.current_char = 0 THEN SkipUnprintable(NextChar(w))
  ELSE w

\* The symbol branch without its NextChar.
ReadSymbol_NoAdvance(w) ==
  IF w.t.current_char >= 128
    THEN AddError(w, "Interpreting non ascii codepoint "
                      \o ToString(w.t.current_char) \o ".")
    ELSE w

\* The last branch of the token dispatch: any other byte is a one-byte symbol.
ReadSymbol(w) ==
  NextChar(IF w.t.current_char >= 128
             THEN AddError(w, "Interpreting non ascii codepoint "
                               \o ToString(w.t.current_char) \o ".")
             ELSE w)

\* t->current.type = type
SetType(w, type) == [w EXCEPT !.t.current.type = type]

\* t->current.type = ConsumeNumber(...)
SetNumberType(n) == SetType(n.w, n.type)

\* The '.' branch without the comparison of the lines.
ReadAfterDot_AnyLine(d) ==
  IF d.ok
    THEN SetNumberType(ConsumeNumber(
           IF d.w.t.previous.type = "IDENTIFIER"
                /\ d.w.t.current.column = d.w.t.previous.end_column
             THEN AddErrorAt(d.w, d.w.t.line, d.w.t.column - 2,
                    "Need space between identifier and decimal point.")
             ELSE d.w,
           FALSE, TRUE))
    ELSE SetType(d.w, "SYMBOL")

\* After TryConsume(t, '.'): d is what TryConsumeOne(t, Digit) returned.
ReadAfterDot(d) ==
  IF d.ok
    THEN SetNumberType(ConsumeNumber(
           IF d.w.t.previous.type = "IDENTIFIER"
                /\ d.w.t.current.line = d.w.t.previous.line
                /\ d.w.t.current.column = d.w.t.previous.end_column
             THEN AddErrorAt(d.w, d.w.t.line, d.w.t.column - 2,
                    "Need space between identifier and decimal point.")
             ELSE d.w,
           FALSE, TRUE))
    ELSE SetType(d.w, "SYMBOL")

\* The token dispatch on the first byte of a token.
ReadTokenText(w) ==
  IF Letter(w.t.current_char)
    THEN SetType(ConsumeZeroOrMore(NextChar(w), "Alphanumeric"), "IDENTIFIER")
  ELSE IF w.t.current_char = 48
    THEN SetNumberType(ConsumeNumber(NextChar(w), TRUE, FALSE))
  ELSE IF w.t.current_char = 46
    THEN ReadAfterDot(TryConsumeOne(NextChar(w), "Digit"))
  ELSE IF Digit(w.t.current_char)
    THEN SetNumberType(ConsumeNumber(NextChar(w), FALSE, FALSE))
  ELSE IF w.t.current_char = 34
    THEN SetType(ConsumeString(NextChar(w), 34), "STRING")
  ELSE IF w.t.current_char = 39
    THEN SetType(ConsumeString(NextChar(w), 39), "STRING")
  ELSE SetType(ReadSymbol(w), "SYMBOL")

\* "Reading some sort of token": from the second StartToken to EndToken.
ReadToken(w) == EndToken(ReadTokenText(StartToken(w)))

\* TryConsumeWhitespace(t) || TryConsumeNewline(t): ws is what
\* TryConsumeWhitespace returned.
OrTryConsumeNewline(ws) == IF ws.ok THEN ws ELSE TryConsumeNewline(ws.w)

\* The while (!t->read_error) loop of upb_Tokenizer_Next: nl is what
\* TryConsumeWhitespace(t) || TryConsumeNewline(t) returned and cs what
\* TryConsumeCommentStart returned.
RECURSIVE NextLoop(_)
NextLoop(w) ==
  IF w.t.read_error THEN EndOfInput(w)
  ELSE
    Only({
      IF nl.ok THEN [w |-> EndToken(nl.w), ret |-> TRUE]
      ELSE
        Only({IF cs.status = "LINE_COMMENT"
                THEN NextLoop(ConsumeLineComment(cs.w))
              ELSE IF cs.status = "BLOCK_COMMENT"
                THEN NextLoop(ConsumeBlockComment(cs.w))
              ELSE IF cs.status = "SLASH_NOT_COMMENT"
                THEN [w |-> cs.w, ret |-> TRUE]
              ELSE IF cs.w.t.read_error THEN EndOfInput(cs.w)
              ELSE IF LookingAt(cs.w, "Unprintable") \/ cs.w.t.current_char = 0
                THEN NextLoop(SkipUnprintable(NextChar(
                       AddError(cs.w,
                         "Invalid control characters encountered in text."))))
              ELSE [w |-> ReadToken(cs.w), ret |-> TRUE]
              : cs \in {TryConsumeCommentStart(EndToken(nl.w))}})
      : nl \in {OrTryConsumeNewline(TryConsumeWhitespace(StartToken(w)))}})

upb_Tokenizer_Next(w) ==
  NextLoop([w EXCEPT !.t.previous = upb_Token_Copy(w.t.previous, w.t.current)])

-----------------------------------------------------------------------------
(* Construction, tear-down and the options. *)

\* The tokenizer upb_Tokenizer_New allocates, before it loads the first
\* character: the default options, both tokens START, the span as the buffer.
NewTokenizer(dat, chunks) ==
  [t |-> [current |-> upb_Token_Init,
          previous |-> upb_Token_Init,
          current_char |-> 0,
          buffer |-> dat,
          buffer_size |-> Len(dat),
          buffer_pos |-> 0,
          read_error |-> FALSE,
          line |-> 0,
          column |-> 0,
          record_target |-> "NULL",
          record_start |-> -1,
          allow_f_after_float |-> FALSE,
          comment_style |-> "CPP",
          require_space_after_number |-> TRUE,
          allow_multiline_strings |-> FALSE,
          report_whitespace |-> FALSE,
          report_newlines |-> FALSE],
   input |-> NewStream(chunks),
   errors |-> <<>>,
   trace |-> [consumed |-> <<>>, after_eof |-> FALSE]]

\* if (size) t->current_char = t->buffer[0]; else Refresh(t);
LoadFirstChar(w) ==
  IF w.t.buffer_size # 0
    THEN [w EXCEPT !.t.current_char = w.t.buffer[1]]
    ELSE Refresh(w)

\* upb_Tokenizer_New that does not load current_char from a non-empty span.
upb_Tokenizer_New_NoFirstChar(dat, chunks) ==
  IF Len(dat) # 0
    THEN NewTokenizer(dat, chunks)
    ELSE Refresh(NewTokenizer(dat, chunks))

upb_Tokenizer_New(dat, chunks) == LoadFirstChar(NewTokenizer(dat, chunks))

upb_Tokenizer_Fini(w) ==
  IF w.t.buffer_size > w.t.buffer_pos
    THEN [w EXCEPT !.input = upb_ZeroCopyInputStream_BackUp(
                               @, w.t.buffer_size - w.t.buffer_pos)]
    ELSE w

upb_Tokenizer_SetAllowFAfterFloat(w, allow) ==
  [w EXCEPT !.t.allow_f_after_float = allow]

upb_Tokenizer_SetCommentStyle(w, style) == [w EXCEPT !.t.comment_style = style]

upb_Tokenizer_SetRequireSpaceAfterNumber(w, require) ==
  [w EXCEPT !.t.require_space_after_number = require]

upb_Tokenizer_SetAllowMultilineStrings(w, allow) ==
  [w EXCEPT !.t.allow_multiline_strings = allow]

\* upb_Tokenizer_SetReportWhitespace without t->report_newlines &= report.
upb_Tokenizer_SetReportWhitespace_KeepsNewlines(w, report) ==
  [w EXCEPT !.t.report_whitespace = report]

upb_Tokenizer_SetReportWhitespace(w, report) ==
  [w EXCEPT !.t.report_whitespace = report,
            !.t.report_newlines = @ /\ report]

upb_Tokenizer_SetReportNewlines(w, report) ==
  [w EXCEPT !.t.report_newlines = report,
            !.t.report_whitespace = @ \/ report]

-----------------------------------------------------------------------------
(* The inputs of the model and the ways of handing them to the tokenizer. *)

\* Layout and comments: tab, newline, '*', '/', 'A'
LayoutBytes == {9, 10, 42, 47, 65}

\* Malformed text and strings: NUL, a control byte, '"', 'A', backslash
StringBytes == {0, 1, 34, 65, 92}

SeqsUpTo(S, n) == UNION {[1..k -> S] : k \in 0..n}

\* Longer inputs, one per case of the scanner that needs more than MaxLen bytes.
Corpus ==
  { <<65, 66, 9, 67>>,          \* AB<tab>C
    <<9, 9, 65>>,               \* <tab><tab>A
    <<47, 42, 65, 42, 47, 65>>, \* /*A*/A
    <<47, 42, 65, 10, 42>>,     \* /*A<newline>*   (unterminated)
    <<47, 42, 47>>,             \* /*/             (unterminated)
    <<47, 47, 65, 10, 65>>,     \* //A<newline>A
    <<65, 32, 47, 65>>,         \* A /A
    <<34, 65, 65, 34, 65>>,     \* "AA"A
    <<34, 92, 65, 34>>,         \* "\A"            (bad escape)
    <<34, 65, 10, 65>>,         \* "A<newline>A    (string crossing a line)
    <<39, 65, 0, 39>>,          \* 'A<NUL>'
    <<65, 0, 1, 65>>,           \* A<NUL><control>A
    <<1, 10, 65>>,              \* <control><newline>A
    <<1, 32, 9, 65>>,           \* <control><space><tab>A
    <<1, 9, 1, 65>>,            \* <control><tab><control>A
    <<65, 65, 9, 10, 65, 65>> } \* AA<tab><newline>AA

Inputs == SeqsUpTo(LayoutBytes, MaxLen) \cup SeqsUpTo(StringBytes, MaxLen) \cup Corpus

\* s cut after each position of cuts (a subset of 1..Len(s)-1), first cut first
RECURSIVE SplitAt(_, _)
SplitAt(s, cuts) ==
  IF s = <<>> THEN <<>>
  ELSE IF cuts = {} THEN <<s>>
  ELSE LET c == CHOOSE x \in cuts : \A y \in cuts : x <= y
       IN  <<SubSeq(s, 1, c)>>
             \o SplitAt(SubSeq(s, c + 1, Len(s)), {y - c : y \in cuts \ {c}})

\* Every way of splitting s into non-empty chunks.
Chunkings(s) == {SplitAt(s, cuts) : cuts \in SUBSET (1..(Len(s) - 1))}

RECURSIVE Flatten(_)
Flatten(chunks) == IF chunks = <<>> THEN <<>> ELSE Head(chunks) \o Flatten(Tail(chunks))

-----------------------------------------------------------------------------
(* uint64_t arithmetic.  A uint64_t is four 16-bit limbs, least significant *)
(* first; the same operators on six limbs hold the exact value of a text.   *)

LimbBase == 65536

UINT64_MAX == <<65535, 65535, 65535, 65535>>

\* (uint64_t)n for a small non-negative int n
U64(n) == <<n % LimbBase, n \div LimbBase, 0, 0>>

\* The limbs i.. of x * m + carry; the carry out of the last limb is dropped,
\* which is the wrap-around of unsigned arithmetic.
RECURSIVE MulAddFrom(_, _, _, _)
MulAddFrom(x, i, m, carry) ==
  IF i > Len(x) THEN <<>>
  ELSE <<(x[i] * m + carry) % LimbBase>>
         \o MulAddFrom(x, i + 1, m, (x[i] * m + carry) \div LimbBase)

\* x * m + a in the width of x
MulAdd(x, m, a) == MulAddFrom(x, 1, m, a)

\* The limbs 1..i of the quotient of (rem, x[i], ..., x[1]) by d
RECURSIVE DivFrom(_, _, _, _)
DivFrom(x, i, d, rem) ==
  IF i = 0 THEN <<>>
  ELSE DivFrom(x, i - 1, d, (rem * LimbBase + x[i]) % d)
         \o <<(rem * LimbBase + x[i]) \div d>>

\* x / d for a small d
Div(x, d) == DivFrom(x, Len(x), d, 0)

\* x < y on the limbs 1..i
RECURSIVE LessFrom(_, _, _)
LessFrom(x, y, i) ==
  IF i = 0 THEN FALSE
  ELSE IF x[i] # y[i] THEN x[i] < y[i]
  ELSE LessFrom(x, y, i - 1)

\* x < y, for x and y of one width
Less(x, y) == LessFrom(x, y, Len(x))

-----------------------------------------------------------------------------
(* uint32_t arithmetic: two 16-bit limbs, least significant first. *)

\* (uint32_t)n for a non-negative int n
U32(n) == <<n % LimbBase, n \div LimbBase>>

RECURSIVE BitAnd(_, _)
BitAnd(a, b) ==
  IF a = 0 \/ b = 0 THEN 0
  ELSE (a % 2) * (b % 2) + 2 * BitAnd(a \div 2, b \div 2)

BitOr(a, b) == a + b - BitAnd(a, b)

\* x & y, x | y, x << k and x >> k in uint32_t
And32(x, y) == <<BitAnd(x[1], y[1]), BitAnd(x[2], y[2])>>

Or32(x, y) == <<BitOr(x[1], y[1]), BitOr(x[2], y[2])>>

Shl32(x, k) ==
  IF k >= 16 THEN <<0, (x[1] * 2^(k - 16)) % LimbBase>>
  ELSE <<(x[1] * 2^k) % LimbBase,
         (x[2] * 2^k + (x[1] * 2^k) \div LimbBase) % LimbBase>>

Shr32(x, k) ==
  IF k >= 16 THEN <<x[2] \div 2^(k - 16), 0>>
  ELSE <<(x[1] \div 2^k) + (x[2] % 2^k) * 2^(16 - k), x[2] \div 2^k>>

\* x <= y
LessEq(x, y) == ~Less(y, x)

ghtonl_NoSwap(host_int) == host_int

\* 0xFF, 0xFF00, 0xFF0000 and 0xFF000000 are the masks.
ghtonl(host_int) ==
  Or32(Or32(Shl32(And32(host_int, <<255, 0>>), 24),
            Shl32(And32(host_int, <<65280, 0>>), 8)),
       Or32(Shr32(And32(host_int, <<0, 255>>), 8),
            Shr32(And32(host_int, <<0, 65280>>), 24)))

\* The four bytes of a uint32_t in memory, lowest address first, on a host
\* that stores the least significant byte first.
Memory(x) == <<x[1] % 256, x[1] \div 256, x[2] % 256, x[2] \div 256>>

\* 'a' 'b' 'f' 'n' 'r' 't' 'v' to the control characters, '\\' '?' '\'' '"'
\* to themselves, anything else to '?'.
TranslateEscape(c) ==
  CASE c = 97 -> 7
    [] c = 98 -> 8
    [] c = 102 -> 12
    [] c = 110 -> 10
    [] c = 114 -> 13
    [] c = 116 -> 9
    [] c = 118 -> 11
    [] c = 92 -> 92
    [] c = 63 -> 63
    [] c = 39 -> 39
    [] c = 34 -> 34
    [] OTHER -> 63

-----------------------------------------------------------------------------
(* Parsing helpers. *)

\* text[i] of a NUL-terminated text, i from 1: the byte after the last is
\* the terminating NUL.
CharAt(text, i) == IF i <= Len(text) THEN text[i] ELSE 0

kAsciiToInt(c) ==
  IF c >= 48 /\ c <= 57 THEN c - 48
  ELSE IF c >= 65 /\ c <= 90 THEN c - 55
  ELSE IF c >= 97 /\ c <= 122 THEN c - 87
  ELSE 36

DigitValue(digit) == kAsciiToInt(digit % 256)

\* (UINT64_MAX / base) + 1
OverflowIfMulBase(base) == MulAdd(Div(UINT64_MAX, base), 1, 1)

\* The first loop of upb_Parse_Integer: the leading '0's and the first
\* non-zero digit.  ptr is where the loop leaves the pointer.
RECURSIVE LeadingDigits(_, _, _)
LeadingDigits(text, ptr, base) ==
  IF CharAt(text, ptr) = 0
    THEN [ok |-> TRUE, ptr |-> ptr, result |-> U64(0)]
  ELSE IF DigitValue(CharAt(text, ptr)) >= base
    THEN [ok |-> FALSE, ptr |-> ptr + 1, result |-> U64(0)]
  ELSE IF DigitValue(CharAt(text, ptr)) # 0
    THEN [ok |-> TRUE, ptr |-> ptr + 1,
          result |-> U64(DigitValue(CharAt(text, ptr)))]
  ELSE LeadingDigits(text, ptr + 1, base)

\* result * base + digit, after the check that the multiplication does not
\* overflow: the addition may wrap, and the wrapped sum is below base.
AddDigit_NoWrapCheck(result, base, digit) ==
  [ok |-> TRUE, result |-> MulAdd(result, base, digit)]

AddDigit(result, base, digit) ==
  [ok |-> ~Less(MulAdd(result, base, digit), U64(base)),
   result |-> MulAdd(result, base, digit)]

\* The second loop of upb_Parse_Integer.
RECURSIVE OtherDigits(_, _, _, _)
OtherDigits(text, ptr, base, result) ==
  IF CharAt(text, ptr) = 0 THEN [ok |-> TRUE, result |-> result]
  ELSE IF DigitValue(CharAt(text, ptr)) < 0
            \/ DigitValue(CharAt(text, ptr)) >= base
    THEN [ok |-> FALSE, result |-> result]
  ELSE IF ~Less(result, OverflowIfMulBase(base))
    THEN [ok |-> FALSE, result |-> result]
  ELSE IF ~AddDigit(result, base, DigitValue(CharAt(text, ptr))).ok
    THEN [ok |-> FALSE, result |-> result]
  ELSE OtherDigits(text, ptr + 1, base,
                   AddDigit(result, base, DigitValue(CharAt(text, ptr))).result)

\* Both loops, from the first digit at ptr.
ParseDigits(text, ptr, base) ==
  Only({IF first.ok THEN OtherDigits(text, first.ptr, base, first.result)
        ELSE [ok |-> FALSE, result |-> first.result]
        : first \in {LeadingDigits(text, ptr, base)}})

\* The end of upb_Parse_Integer storing to *output before the range check.
CheckMaxValue_StoresFirst(r, max_value, output) ==
  IF ~r.ok THEN [ret |-> FALSE, output |-> output]
  ELSE IF Less(max_value, r.result) THEN [ret |-> FALSE, output |-> r.result]
  ELSE [ret |-> TRUE, output |-> r.result]

\* The end of upb_Parse_Integer: the range check and the store to *output.
CheckMaxValue(r, max_value, output) ==
  IF ~r.ok \/ Less(max_value, r.result)
    THEN [ret |-> FALSE, output |-> output]
    ELSE [ret |-> TRUE, output |-> r.result]

\* upb_Parse_Integer(text, max_value, &output), output being what *output
\* held before the call.
upb_Parse_Integer(text, max_value, output) ==
  IF CharAt(text, 1) = 48
    THEN IF CharAt(text, 2) = 120 \/ CharAt(text, 2) = 88
           THEN CheckMaxValue(ParseDigits(text, 3, 16), max_value, output)
           ELSE CheckMaxValue(ParseDigits(text, 1, 8), max_value, output)
    ELSE CheckMaxValue(ParseDigits(text, 1, 10), max_value, output)

-----------------------------------------------------------------------------
(* The state machine: one action per public operation. *)

\* No parsing helper has been called.
NoCall == [fn |-> "none"]

World == [t |-> t, input |-> input, errors |-> errors, trace |-> trace]

Becomes(w) == t' = w.t /\ input' = w.input /\ errors' = w.errors /\ trace' = w.trace

\* A parsing helper returns: ret and what the call wrote.
Returns(r) ==
  /\ call' = r
  /\ op' = "Parse"
  /\ UNCHANGED <<t, input, errors, trace, data, ret, setters, ref>>

\* The whole input: the in-memory span, then the stream's chunks.
Source == data \o Flatten(input.chunks)

\* upb_Tokenizer_New(span, size, stream, ...): the first chunk of a split is
\* passed as the in-memory span (as_span) or everything comes from the stream.
InitWith(s, chunks, as_span) ==
    LET span == IF as_span /\ chunks # <<>> THEN Head(chunks) ELSE <<>>
        rest == IF as_span /\ chunks # <<>> THEN Tail(chunks) ELSE chunks
    IN  /\ \E w \in {upb_Tokenizer_New(span, rest)} :
             /\ t = w.t
             /\ input = w.input
             /\ errors = w.errors
             /\ trace = w.trace
        /\ data = span
        /\ op = "New"
        /\ ret = "none"
        /\ setters = 0
        /\ ref = [w |-> upb_Tokenizer_New(<<>>, SplitAt(s, {})), ret |-> "none"]

\* The input split in every way.
InitOn(inputs) ==
  \E s \in inputs : \E chunks \in Chunkings(s) : \E as_span \in BOOLEAN :
    InitWith(s, chunks, as_span)

Init == InitOn(Inputs) /\ call = NoCall

TokenizerNext ==
  /\ op # "Fini"
  /\ \E r \in {upb_Tokenizer_Next(World)} :
       /\ Becomes(r.w)
       /\ ret' = IF r.ret THEN "true" ELSE "false"
  /\ \E rr \in {upb_Tokenizer_Next(ref.w)} :
       ref' = [w |-> rr.w, ret |-> IF rr.ret THEN "true" ELSE "false"]
  /\ op' = "Next"
  /\ UNCHANGED <<data, setters, call>>

TokenizerFini ==
  /\ op # "Fini"
  /\ Becomes(upb_Tokenizer_Fini(World))
  /\ op' = "Fini"
  /\ UNCHANGED <<data, ret, setters, ref, call>>

\* An option setter runs on the tokenizer and on the reference alike.
Setter(w, rw) ==
  /\ op # "Fini"
  /\ setters < MaxSetterCalls
  /\ Becomes(w)
  /\ ref' = [ref EXCEPT !.w = rw]
  /\ op' = "Set"
  /\ setters' = setters + 1
  /\ UNCHANGED <<data, ret, call>>

SetAllowFAfterFloat ==
  \E b \in BOOLEAN :
    Setter(upb_Tokenizer_SetAllowFAfterFloat(World, b),
           upb_Tokenizer_SetAllowFAfterFloat(ref.w, b))

SetCommentStyle ==
  \E style \in {"CPP", "SH"} :
    Setter(upb_Tokenizer_SetCommentStyle(World, style),
           upb_Tokenizer_SetCommentStyle(ref.w, style))

SetRequireSpaceAfterNumber ==
  \E b \in BOOLEAN :
    Setter(upb_Tokenizer_SetRequireSpaceAfterNumber(World, b),
           upb_Tokenizer_SetRequireSpaceAfterNumber(ref.w, b))

SetAllowMultilineStrings ==
  \E b \in BOOLEAN :
    Setter(upb_Tokenizer_SetAllowMultilineStrings(World, b),
           upb_Tokenizer_SetAllowMultilineStrings(ref.w, b))

SetReportWhitespace ==
  \E b \in BOOLEAN :
    Setter(upb_Tokenizer_SetReportWhitespace(World, b),
           upb_Tokenizer_SetReportWhitespace(ref.w, b))

SetReportNewlines ==
  \E b \in BOOLEAN :
    Setter(upb_Tokenizer_SetReportNewlines(World, b),
           upb_Tokenizer_SetReportNewlines(ref.w, b))

Next ==
  \/ TokenizerNext
  \/ TokenizerFini
  \/ SetAllowFAfterFloat
  \/ SetCommentStyle
  \/ SetRequireSpaceAfterNumber
  \/ SetAllowMultilineStrings
  \/ SetReportWhitespace
  \/ SetReportNewlines

Spec == Init /\ [][Next]_vars

\* The caller does not walk away from a tokenizer it has not torn down: it
\* goes on calling upb_Tokenizer_Next or calls upb_Tokenizer_Fini.
LiveSpec == Spec /\ WF_vars(TokenizerFini \/ TokenizerNext)

\* upb_String_Append(output, ((char*)&tmp) + (sizeof tmp) - len, len) after
\* tmp = ghtonl(tmp): the last len bytes of tmp in memory.
AppendTail(tmp, len, output) ==
  output \o SubSeq(Memory(ghtonl(tmp)), 4 - len + 1, 4)

\* One lowercase hex digit, and the four of a 16-bit limb
HexChar(d) == IF d < 10 THEN 48 + d ELSE 87 + d

HexOfLimb(l) ==
  <<HexChar(l \div 4096), HexChar((l \div 256) % 16),
    HexChar((l \div 16) % 16), HexChar(l % 16)>>

\* snprintf(temp, sizeof temp, "\\U%08x", code_point)
FormatOutOfRange(code_point) ==
  <<92, 85>> \o HexOfLimb(code_point[2]) \o HexOfLimb(code_point[1])

\* The constants are 0x7f; 0x07ff, 0xc080, 0x07c0, 0x3f; 0xffff, 0x00e08080,
\* 0xf000, 0x0fc0; 0x10ffff, 0xf0808080, 0x1c0000, 0x03f000.
AppendUTF8(code_point, output) ==
  IF LessEq(code_point, <<127, 0>>)
    THEN AppendTail(code_point, 1, output)
  ELSE IF LessEq(code_point, <<2047, 0>>)
    THEN AppendTail(
           Or32(Or32(<<49280, 0>>, Shl32(And32(code_point, <<1984, 0>>), 2)),
                And32(code_point, <<63, 0>>)),
           2, output)
  ELSE IF LessEq(code_point, <<65535, 0>>)
    THEN AppendTail(
           Or32(Or32(<<32896, 224>>, Shl32(And32(code_point, <<61440, 0>>), 4)),
                Or32(Shl32(And32(code_point, <<4032, 0>>), 2),
                     And32(code_point, <<63, 0>>))),
           3, output)
  ELSE IF LessEq(code_point, <<65535, 16>>)
    THEN AppendTail(
           Or32(Or32(Or32(<<32896, 61568>>,
                          Shl32(And32(code_point, <<0, 28>>), 6)),
                     Shl32(And32(code_point, <<61440, 3>>), 4)),
                Or32(Shl32(And32(code_point, <<4032, 0>>), 2),
                     And32(code_point, <<63, 0>>))),
           4, output)
  ELSE output \o FormatOutOfRange(code_point)

\* The parser of a string: the text (NUL-terminated, followed in memory by
\* the bytes of after), the read pointer (an index from 1), the output, the
\* highest index read so far and the iterations of the main loop so far.
Mem(s, i) == CharAt(s.text \o <<0>> \o s.after, i)

\* The byte at index i has been read.
Saw(s, i) == [s EXCEPT !.far = IF i > @ THEN i ELSE @]

\* ptr[k], and that it has been read
Byte(s, k) == Mem(s, s.ptr + k)

Look(s, k) == Saw(s, s.ptr + k)

\* ++ptr
Inc(s) == [s EXCEPT !.ptr = @ + 1]

\* upb_String_PushBack(output, c)
PushBack(s, c) == [s EXCEPT !.output = Append(@, c)]

\* The loop of ReadHexDigits: n digits left, from index i.
RECURSIVE ReadHexLoop(_, _, _, _)
ReadHexLoop(s, i, n, result) ==
  IF n = 0 THEN [ok |-> TRUE, result |-> result, s |-> s]
  ELSE IF Mem(s, i) = 0 THEN [ok |-> FALSE, result |-> result, s |-> Saw(s, i)]
  ELSE ReadHexLoop(Saw(s, i), i + 1, n - 1,
                   MulAdd(result, 16, DigitValue(Mem(s, i))))

\* ReadHexDigits(ptr, len, &result), with the parser whose text ptr points in
ReadHexDigits(s, ptr, len) ==
  IF len = 0 THEN [ok |-> FALSE, result |-> U32(0), s |-> s]
  ELSE ReadHexLoop(s, ptr, len, U32(0))

kMinHeadSurrogate == 55296
kMaxHeadSurrogate == 56320
kMinTrailSurrogate == 56320
kMaxTrailSurrogate == 57344

IsHeadSurrogate(code_point) ==
  LessEq(U32(kMinHeadSurrogate), code_point)
    /\ Less(code_point, U32(kMaxHeadSurrogate))

IsTrailSurrogate(code_point) ==
  LessEq(U32(kMinTrailSurrogate), code_point)
    /\ Less(code_point, U32(kMaxTrailSurrogate))

\* Both arguments are surrogates (the function asserts it), so below 0x10000.
AssembleUTF16_Plus(head_surrogate, trail_surrogate) ==
  U32(65536 + (head_surrogate[1] - kMinHeadSurrogate) * 1024
        + (trail_surrogate[1] - kMinTrailSurrogate) + 1)

AssembleUTF16(head_surrogate, trail_surrogate) ==
  U32(65536 + BitOr((head_surrogate[1] - kMinHeadSurrogate) * 2^10,
                    trail_surrogate[1] - kMinTrailSurrogate))

UnicodeLength(key) == IF key = 117 THEN 4 ELSE IF key = 85 THEN 8 ELSE 0

\* FetchUnicodePoint returns the end pointer and fills in *code_point.
Fetched(end, code_point, s) == [end |-> end, code_point |-> code_point, s |-> s]

\* The trail surrogate after a head surrogate h and "\u" at p.
FetchTrail(h, p) ==
  Only({IF tr.ok /\ IsTrailSurrogate(tr.result)
          THEN Fetched(p + 6, AssembleUTF16(h.result, tr.result), tr.s)
          ELSE Fetched(p, h.result, tr.s)
        : tr \in {ReadHexDigits(Saw(h.s, p + 1), p + 2, 4)}})

\* What follows the code point h, which ends before p.
FetchAfter(h, p) ==
  IF ~IsHeadSurrogate(h.result) THEN Fetched(p, h.result, h.s)
  ELSE IF Mem(h.s, p) # 92 THEN Fetched(p, h.result, Saw(h.s, p))
  ELSE IF Mem(h.s, p + 1) # 117 THEN Fetched(p, h.result, Saw(h.s, p + 1))
  ELSE FetchTrail(h, p)

\* FetchLead failing on a head surrogate that no backslash follows.
FetchLead_RejectsLoneHead(h, ptr, len) ==
  IF ~h.ok \/ (IsHeadSurrogate(h.result) /\ Mem(h.s, ptr + 1 + len) # 92)
    THEN Fetched(ptr, h.result, h.s)
    ELSE FetchAfter(h, ptr + 1 + len)

\* The code point h read after the 'u' or 'U' at ptr, of len digits.
FetchLead(h, ptr, len) ==
  IF ~h.ok THEN Fetched(ptr, h.result, h.s)
  ELSE FetchAfter(h, ptr + 1 + len)

\* FetchUnicodePoint(ptr, &code_point), ptr being the parser's.
FetchUnicodePoint(s) ==
  FetchLead(ReadHexDigits(Look(s, 0), s.ptr + 1, UnicodeLength(Byte(s, 0))),
            s.ptr, UnicodeLength(Byte(s, 0)))

\* An octal or hex escape in progress: the parser and the code so far.
OctalNext(o) ==
  IF OctalDigit(Byte(o.s, 1))
    THEN [s |-> Inc(Look(o.s, 1)),
          code |-> o.code * 8 + DigitValue(Byte(o.s, 1))]
    ELSE [s |-> Look(o.s, 1), code |-> o.code]

HexFirst(o) ==
  IF HexDigit(Byte(o.s, 1))
    THEN [s |-> Inc(Look(o.s, 1)), code |-> DigitValue(Byte(o.s, 1))]
    ELSE [s |-> Look(o.s, 1), code |-> o.code]

HexSecond(o) ==
  IF HexDigit(Byte(o.s, 1))
    THEN [s |-> Inc(Look(o.s, 1)),
          code |-> o.code * 16 + DigitValue(Byte(o.s, 1))]
    ELSE [s |-> Look(o.s, 1), code |-> o.code]

\* upb_String_PushBack(output, (char)code)
PushCode(o) == PushBack(o.s, o.code % 256)

\* The 'u' or 'U' escape, given what FetchUnicodePoint returned.
UnicodeEscape(s, u) ==
  IF u.end = s.ptr THEN PushBack(u.s, Byte(s, 0))
  ELSE [u.s EXCEPT !.output = AppendUTF8(u.code_point, @), !.ptr = u.end - 1]

\* An escape sequence, ptr at the byte after the backslash.
EscapeSequence(s) ==
  IF OctalDigit(Byte(s, 0))
    THEN PushCode(OctalNext(OctalNext([s |-> s, code |-> DigitValue(Byte(s, 0))])))
  ELSE IF Byte(s, 0) = 120
    THEN PushCode(HexSecond(HexFirst([s |-> s, code |-> 0])))
  ELSE IF Byte(s, 0) = 117 \/ Byte(s, 0) = 85
    THEN UnicodeEscape(s, FetchUnicodePoint(s))
  ELSE PushBack(s, TranslateEscape(Byte(s, 0)))

\* The body of the main loop, ptr at a byte that is not NUL.
StringBody_SkipsAfterBackslash(s) ==
  IF Byte(s, 0) = 92 THEN EscapeSequence(Inc(Look(s, 1)))
  ELSE IF Byte(s, 0) = s.text[1] /\ Byte(s, 1) = 0 THEN Look(s, 1)
  ELSE IF Byte(s, 0) = s.text[1] THEN PushBack(Look(s, 1), Byte(s, 0))
  ELSE PushBack(s, Byte(s, 0))

StringBody(s) ==
  IF Byte(s, 0) = 92 /\ Byte(s, 1) # 0 THEN EscapeSequence(Inc(Look(s, 1)))
  ELSE IF Byte(s, 0) = 92 /\ Byte(s, 0) = s.text[1] /\ Byte(s, 1) = 0
    THEN Look(s, 1)
  ELSE IF Byte(s, 0) = 92 THEN PushBack(Look(s, 1), Byte(s, 0))
  ELSE IF Byte(s, 0) = s.text[1] /\ Byte(s, 1) = 0 THEN Look(s, 1)
  ELSE IF Byte(s, 0) = s.text[1] THEN PushBack(Look(s, 1), Byte(s, 0))
  ELSE PushBack(s, Byte(s, 0))

\* for (ptr = text + 1; *ptr != '\0'; ptr++)
RECURSIVE StringLoop(_)
StringLoop(s) ==
  IF Byte(s, 0) = 0 THEN Look(s, 0)
  ELSE StringLoop([Inc(StringBody(Look(s, 0))) EXCEPT !.loops = @ + 1])

\* strlen(text + i - 1), text indexed from 1
RECURSIVE strlen(_, _)
strlen(text, i) == IF CharAt(text, i) = 0 THEN 0 ELSE 1 + strlen(text, i + 1)

\* upb_Parse_StringAppend(text, output): the parser when the function
\* returns.  after is what memory holds behind the text's NUL.
upb_Parse_StringAppend(text, after, output) ==
  IF strlen(text, 1) = 0
    THEN [text |-> text, after |-> after, ptr |-> 1, output |-> output,
          far |-> 1, loops |-> 0]
    ELSE StringLoop([text |-> text, after |-> after, ptr |-> 2,
                     output |-> output, far |-> 1, loops |-> 0])

\* upb_Parse_String(text, output): upb_String_Clear(output), then
\* upb_Parse_StringAppend.
upb_Parse_String(text, after, output) ==
  upb_Parse_StringAppend(text, after, <<>>)

RECURSIVE AllInClass(_, _, _, _)
\* AllInClass(f, text + from - 1, size), text indexed from 1
AllInClass(f, text, from, size) ==
  IF size <= 0 THEN TRUE
  ELSE IF ~InClass(f, text[from]) THEN FALSE
  ELSE AllInClass(f, text, from + 1, size - 1)

upb_Tokenizer_IsIdentifier_AnyFirst(text, size) ==
  size # 0 /\ AllInClass("Alphanumeric", text, 1, size)

upb_Tokenizer_IsIdentifier(text, size) ==
  IF size = 0 THEN FALSE
  ELSE IF ~Letter(text[1]) THEN FALSE
  ELSE IF ~AllInClass("Alphanumeric", text, 2, size - 1) THEN FALSE
  ELSE TRUE

-----------------------------------------------------------------------------
(* The parsing helpers as a state machine of their own: a call is drawn   *)
(* with its arguments, and the helper runs on it.                          *)

\* The most digits after the prefix in the enumerated integer texts.
MaxDigits == 2

\* The ASCII text of a sequence of digit values (upper-case above 9)
Ascii(ds) == [i \in DOMAIN ds |-> IF ds[i] < 10 THEN 48 + ds[i] ELSE 55 + ds[i]]

\* The digits of UINT64_MAX in base 10, 16 and 8
MaxDecimal == <<1, 8, 4, 4, 6, 7, 4, 4, 0, 7, 3, 7, 0, 9, 5, 5, 1, 6, 1, 5>>
MaxHex == [i \in 1..16 |-> 15]
MaxOctal == <<1>> \o [i \in 1..21 |-> 7]

Front(s) == SubSeq(s, 1, Len(s) - 1)

\* The texts around the largest value: the largest one with its last digit
\* replaced, with one more digit, and with the digit before the last raised.
AroundMax(digits, base) ==
  {Front(digits) \o <<d>> : d \in 0..(base - 1)}
    \cup {digits \o <<d>> : d \in {0, base - 1}}
    \cup {SubSeq(digits, 1, Len(digits) - 2) \o <<dd, d>>
            : dd \in {digits[Len(digits) - 1] + 1} \cap 0..(base - 1),
              d \in {0, base - 1}}

DecimalTexts ==
  {s \in SeqsUpTo({48, 49, 57}, MaxDigits) : s # <<>> /\ s[1] # 48}
    \cup {Ascii(ds) : ds \in AroundMax(MaxDecimal, 10)}
    \cup {Ascii(<<9>> \o Front(MaxDecimal)), Ascii(<<9>> \o MaxDecimal)}

OctalTexts ==
  {<<48>> \o s : s \in SeqsUpTo({48, 49, 55}, MaxDigits)}
    \cup {<<48>> \o Ascii(ds) : ds \in AroundMax(MaxOctal, 8)}
    \cup {<<48>> \o Ascii(<<2>> \o [i \in 1..21 |-> 0]),
          <<48, 48>> \o Ascii(MaxOctal)}

HexTexts ==
  {<<48, x>> \o s : x \in {120, 88},
                    s \in SeqsUpTo({48, 57, 70, 97}, MaxDigits) \ {<<>>}}
    \cup {<<48, 120>> \o Ascii(ds) : ds \in AroundMax(MaxHex, 16)}
    \cup {<<48, 120>> \o Ascii(<<1>> \o [i \in 1..16 |-> 0]),
          <<48, 120, 48>> \o Ascii(MaxHex),
          <<48, 120>> \o [i \in 1..16 |-> 102]}

IntegerTexts == DecimalTexts \cup OctalTexts \cup HexTexts

\* UINT64_MAX, INT64_MAX, UINT32_MAX and two small limits
MaxValues ==
  {UINT64_MAX, <<65535, 65535, 65535, 32767>>, <<65535, 65535, 0, 0>>,
   U64(16), U64(0)}

\* Texts with a byte that is no digit of their base: 099, 08, 0019, 1a, 19z,
\* a, 1-9, 0xg, 0x1G, x1.
InvalidTexts ==
  { <<48, 57, 57>>, <<48, 56>>, <<48, 48, 49, 57>>, <<49, 97>>,
    <<49, 57, 122>>, <<97>>, <<49, 45, 57>>, <<48, 120, 103>>,
    <<48, 120, 49, 71>>, <<120, 49>> }

\* What *output may hold before a call: zero, or a value no text denotes.
OutputsBefore == {U64(0), <<1, 2, 3, 4>>}

IntegerCalls ==
  {[fn |-> "upb_Parse_Integer", text |-> text, max_value |-> max_value,
    output |-> output, ret |-> "none"]
     : text \in IntegerTexts \cup InvalidTexts, max_value \in MaxValues,
       output \in OutputsBefore}

\* Four hex digits of a 16-bit value, upper-case or lower-case
Hex4(v, upper) ==
  [i \in 1..4 |->
     IF upper /\ HexOfLimb(v)[i] >= 97 THEN HexOfLimb(v)[i] - 32
     ELSE HexOfLimb(v)[i]]

\* Head surrogates: the first two, U+D83D, the last; trail surrogates: the
\* first, U+DE00, U+DEAD, the last.
HeadSamples == {55296, 55297, 55357, 56319}
TrailSamples == {56320, 56832, 57005, 57343}

\* "<before>\uHHHH\uLLLL<behind>" with its quotes
PairLiteral(before, h, l, behind, upper) ==
  <<34>> \o before \o <<92, 117>> \o Hex4(h, upper)
    \o <<92, 117>> \o Hex4(l, upper) \o behind \o <<34>>

StringCalls ==
  {[fn |-> "upb_Parse_String",
    text |-> PairLiteral(before, h, l, behind, upper),
    before |-> before, head |-> h, trail |-> l, behind |-> behind,
    output |-> output, after |-> <<34>>, ret |-> "none", result |-> <<>>]
     : before \in {<<>>, <<97>>}, h \in HeadSamples, l \in TrailSamples,
       behind \in {<<>>, <<122>>}, upper \in BOOLEAN,
       output \in {<<>>, <<65>>}}

\* The limbs of the code points: around every threshold of AppendUTF8, a
\* surrogate, alternating bits, and the ends of the range.
LowLimbs ==
  {0, 1, 63, 64, 127, 128, 2047, 2048, 4095, 4096, 21845, 43690, 55357,
   65534, 65535}
HighLimbs == {0, 1, 15, 16, 17, 31, 32767, 32768, 65535}

AppendCalls ==
  {[fn |-> "AppendUTF8", code_point |-> <<lo, hi>>, output |-> output,
    ret |-> "none", result |-> <<>>]
     : lo \in LowLimbs, hi \in HighLimbs, output \in {<<>>, <<65, 0, 195>>}}

ParserCalls == IntegerCalls \cup StringCalls \cup AppendCalls

-----------------------------------------------------------------------------
(* Numbers, scanned and then parsed: upb_Tokenizer_Next on a text read as  *)
(* one chunk, and upb_Parse_Integer on the text of an INTEGER token.       *)

\* foo 123 0x1F 07 0.5 1e10 "a\nb" // tail<newline>BAR
Sample ==
  <<102, 111, 111, 32, 49, 50, 51, 32, 48, 120, 49, 70, 32, 48, 55, 32,
    48, 46, 53, 32, 49, 101, 49, 48, 32, 34, 97, 92, 110, 98, 34, 32,
    47, 47, 32, 116, 97, 105, 108, 10, 66, 65, 82>>

NumberCorpus ==
  { <<48>>,                         \* 0
    <<48, 48>>,                     \* 00
    <<55>>,                         \* 7
    <<48, 49, 55>>,                 \* 017
    <<48, 56, 57>>,                 \* 089      (not octal)
    <<48, 120>>,                    \* 0x       (no hex digits)
    <<48, 88, 49, 102>>,            \* 0X1f
    <<48, 120, 49, 70, 103>>,       \* 0x1Fg    (no space before g)
    <<49, 57, 32, 48, 55, 10, 53>>, \* 19 07<newline>5
    <<49, 50, 97>>,                 \* 12a      (no space before a)
    <<49, 95>>,                     \* 1_
    <<49, 46, 53>>,                 \* 1.5
    <<48, 55, 46>>,                 \* 07.      (octal with a point)
    <<49, 101, 53>>,                \* 1e5
    <<49, 102>>,                    \* 1f
    <<46, 53>>,                     \* .5
    <<45, 49>>,                     \* -1
    Sample }

NumberInputs ==
  NumberCorpus
    \cup {Ascii(ds) : ds \in AroundMax(MaxDecimal, 10)}
    \cup {<<48>> \o Ascii(ds) : ds \in AroundMax(MaxOctal, 8)}
    \cup {<<48, 120>> \o Ascii(ds) : ds \in AroundMax(MaxHex, 16)}

\* The input read as one chunk, or passed whole as the in-memory span.
NumberInit ==
  /\ \E s \in NumberInputs : \E as_span \in BOOLEAN :
       InitWith(s, SplitAt(s, {}), as_span)
  /\ call = NoCall

\* The caller parses the INTEGER token that Next() has just returned.
ParseTokenInteger ==
  /\ op = "Next"
  /\ t.current.type = "INTEGER"
  /\ call = NoCall
  /\ \E r \in {upb_Parse_Integer(t.current.text, UINT64_MAX, U64(0))} :
       Returns([fn |-> "upb_Parse_Integer", text |-> t.current.text,
                max_value |-> UINT64_MAX, output |-> r.output,
                ret |-> IF r.ret THEN "true" ELSE "false"])

\* A tokenizer that is not used, and a call about to be made.
ParserInit == InitOn({<<>>}) /\ call \in ParserCalls

ParseInteger ==
  /\ call.fn = "upb_Parse_Integer"
  /\ call.ret = "none"
  /\ \E r \in {upb_Parse_Integer(call.text, call.max_value, call.output)} :
       Returns([call EXCEPT !.ret = IF r.ret THEN "true" ELSE "false",
                            !.output = r.output])

-----------------------------------------------------------------------------
(* Identifiers, scanned and then tested: upb_Tokenizer_Next on inputs of   *)
(* letters, digits, '_' and spaces, and upb_Tokenizer_IsIdentifier on the  *)
(* text of the current token.                                              *)

\* ' ', '9', 'A', '_'
IdentifierBytes == {32, 57, 65, 95}

IdentifierCorpus ==
  { <<97, 122, 95, 48, 57>>,      \* az_09
    <<95, 95, 90>>,               \* __Z
    <<97, 49, 32, 98, 50>>,       \* a1 b2
    <<65, 45, 66>>,               \* A-B
    <<57, 65, 65>> }              \* 9AA

IdentifierInputs == SeqsUpTo(IdentifierBytes, MaxLen) \cup IdentifierCorpus

IdentifierInit == InitOn(IdentifierInputs) /\ call = NoCall

\* The caller tests the text of the token that Next() has just returned.
IsIdentifier ==
  /\ op = "Next"
  /\ ret = "true"
  /\ call = NoCall
  /\ Returns([fn |-> "upb_Tokenizer_IsIdentifier", text |-> t.current.text,
              ret |-> IF upb_Tokenizer_IsIdentifier(t.current.text,
                                                    Len(t.current.text))
                        THEN "true" ELSE "false"])

IdentifierNext ==
  \/ TokenizerNext
  \/ TokenizerFini
  \/ SetAllowFAfterFloat
  \/ SetCommentStyle
  \/ SetRequireSpaceAfterNumber
  \/ SetAllowMultilineStrings
  \/ SetReportWhitespace
  \/ SetReportNewlines
  \/ IsIdentifier

IdentifierSpec == IdentifierInit /\ [][IdentifierNext]_vars

-----------------------------------------------------------------------------
(* Strings, scanned and then parsed: upb_Tokenizer_Next on a text read as  *)
(* one chunk, and upb_Parse_StringAppend on the text of a STRING token.    *)

\* '"', 'D', backslash, 'u', 'x'
EscapeBytes == {34, 68, 92, 117, 120}

StringCorpus ==
  { <<34, 92, 117, 68, 56, 51, 68, 92, 117, 68, 69, 48, 48, 34>>,
      \* "\uD83D\uDE00"   (a surrogate pair)
    <<34, 92, 117, 100, 56, 51, 100, 92, 117, 100, 101, 48, 48>>,
      \* "\ud83d\ude00   (the pair in lower case, unterminated)
    <<34, 92, 117, 68, 56, 51, 68>>,
      \* "\uD83D   (a high surrogate at the very end)
    <<34, 92, 117, 68, 56, 51, 68, 34>>,
      \* "\uD83D"   (a high surrogate and the closing quote)
    <<34, 92, 117, 68, 56, 51, 68, 92>>,
      \* "\uD83D\   (a high surrogate and a trailing backslash)
    <<34, 92, 117, 68, 56, 51, 68, 92, 117>>,
      \* "\uD83D\u   (a high surrogate and a truncated \u)
    <<34, 92, 117, 68, 56, 51, 68, 92, 117, 68, 69, 48>>,
      \* "\uD83D\uDE0   (a trail surrogate cut short)
    <<34, 92, 117, 68, 56, 51, 68, 92, 117, 48, 48, 52, 49, 34>>,
      \* "\uD83D\u0041"   (a high surrogate and a code point that is no trail)
    <<34, 92, 117, 68, 56, 51, 68, 122, 122, 34>>,
      \* "\uD83Dzz"   (a high surrogate and text)
    <<34, 92, 117, 90, 90, 90, 90, 34>>,
      \* "\uZZZZ"   (\u without hex digits)
    <<34, 92, 85, 48, 48, 49, 48, 70, 70, 70, 70, 34>>,
      \* "\U0010FFFF"   (the last code point)
    <<34, 92, 85, 48, 48, 49, 49, 48, 48, 48, 48, 34>>,
      \* "\U00110000"   (above the last code point)
    <<34, 92, 85, 48, 48, 49>>,
      \* "\U001   (a truncated \U)
    <<34, 92, 85, 48, 48, 48, 48, 68, 56, 51, 68, 92, 117, 68, 69, 48, 48, 34>>,
      \* "\U0000D83D\uDE00"   (a high surrogate written with \U)
    <<34, 92, 120, 52>>,
      \* "\x4   (a truncated \x)
    <<34, 92, 120, 70, 103, 34>>,
      \* "\xFg"   (\x with one digit)
    <<34, 92, 55, 55, 55, 34>>,
      \* "\777"   (an octal escape above 255)
    <<34, 92, 49, 56, 34>>,
      \* "\18"   (an octal escape of one digit)
    <<39, 97, 92, 39, 98, 39>>,
      \* 'a\'b'   (an escaped delimiter)
    <<34, 97, 10, 98, 34>>,
      \* "a<newline>b"   (a string crossing a line)
    <<34, 10>>,
      \* "<newline>
    <<34, 97, 34, 10, 39, 10, 10, 39>>,
      \* "a"<newline>'<newline><newline>'   (a newline behind a closed string)
    <<34, 92, 10, 34>>,
      \* "\<newline>"   (a backslash before the newline)
    <<34, 92, 34, 10, 34>>,
      \* "\"<newline>"   (an escaped quote before the newline)
    <<9, 39, 34, 10, 9, 34, 39, 97>>,
      \* <tab>'"<newline><tab>"'a
    <<34, 97, 98, 92>>,
      \* "ab\   (a trailing backslash)
    <<34, 92, 113, 92, 110, 34>>,
      \* "\q\n"   (an invalid escape and a valid one)
    <<34, 97, 98, 92, 117, 48, 48, 52, 49, 99, 100, 34>> }
      \* "ab\u0041cd"   (spec section 8)

\* An opening quote and up to MaxLen + 1 bytes, and the corpus.
StringInputs ==
  {<<34>> \o body : body \in SeqsUpTo(EscapeBytes, MaxLen + 1)}
    \cup StringCorpus

StringInit ==
  /\ \E s \in StringInputs : \E as_span \in BOOLEAN :
       InitWith(s, SplitAt(s, {}), as_span)
  /\ call = NoCall

\* What memory may hold behind the NUL that ends a text: nothing the parser
\* may rely on.
AfterText == {<<92, 117, 68>>, <<34>>}

\* A call of upb_Parse_StringAppend and the parser it returned with.
StringCall(text, output, s) ==
  [fn |-> "upb_Parse_StringAppend", text |-> text, output |-> output,
   ret |-> s.output, ptr |-> s.ptr, far |-> s.far, loops |-> s.loops]

\* The caller parses the STRING token that Next() has just returned.
ParseTokenString ==
  /\ op = "Next"
  /\ t.current.type = "STRING"
  /\ call = NoCall
  /\ \E after \in AfterText :
       Returns(StringCall(t.current.text, <<>>,
                          upb_Parse_StringAppend(t.current.text, after, <<>>)))

StringNext ==
  \/ TokenizerNext
  \/ TokenizerFini
  \/ SetAllowFAfterFloat
  \/ SetCommentStyle
  \/ SetRequireSpaceAfterNumber
  \/ SetAllowMultilineStrings
  \/ SetReportWhitespace
  \/ SetReportNewlines
  \/ ParseTokenString

StringSpec == StringInit /\ [][StringNext]_vars

NumberNext ==
  \/ TokenizerNext
  \/ TokenizerFini
  \/ SetAllowFAfterFloat
  \/ SetCommentStyle
  \/ SetRequireSpaceAfterNumber
  \/ SetAllowMultilineStrings
  \/ SetReportWhitespace
  \/ SetReportNewlines
  \/ ParseTokenInteger

NumberSpec == NumberInit /\ [][NumberNext]_vars

-----------------------------------------------------------------------------
(* Numbers: every short text over the bytes ConsumeNumber tells apart, read *)
(* with allow_f_after_float and require_space_after_number either way.      *)

\* The length of the texts.
MaxNumeral == 3

\* '0', '1', '8', '.', 'e', 'f', 'x', '-'
NumeralBytes == {48, 49, 56, 46, 101, 102, 120, 45}

NumeralCorpus ==
  { <<48, 88, 49, 70, 46>>,          \* 0X1F.
    <<49, 69, 43, 49, 70>>,          \* 1E+1F
    <<49, 46, 49, 101, 45, 49>>,     \* 1.1e-1
    <<48, 55, 56, 57, 32, 49>>,      \* 0789 1
    <<49, 95>>,                      \* 1_
    <<49, 65>>,                      \* 1A
    <<102, 111, 111, 46, 49>>,       \* foo.1
    <<102, 32, 46, 49>>,             \* f .1
    <<101, 10, 32, 46, 49>>,         \* e<newline> .1
    <<49, 50, 46, 51>>,              \* 12.3  is one token
    <<34, 101, 34, 46, 49>>,         \* "e".1
    <<101, 47, 42, 42, 47, 46, 49>> } \* e/**/.1

NumeralInputs == SeqsUpTo(NumeralBytes, MaxNumeral) \cup NumeralCorpus

\* The input read as one chunk.
NumeralInit ==
  /\ \E s \in NumeralInputs : InitWith(s, SplitAt(s, {}), FALSE)
  /\ call = NoCall

NumeralNext ==
  \/ TokenizerNext
  \/ SetAllowFAfterFloat
  \/ SetRequireSpaceAfterNumber

NumeralSpec == NumeralInit /\ [][NumeralNext]_vars

-----------------------------------------------------------------------------
(* Comments: every short text over the bytes the comment scanners tell     *)
(* apart, split into chunks in every way, read in either comment style.    *)

\* The length of the texts.
MaxComment == 3

\* '/', '*', '#', NUL, newline, 'A'
CommentBytes == {47, 42, 35, 0, 10, 65}

CommentCorpus ==
  { <<47, 42, 32, 97, 32, 47, 42, 47>>,                      \* /* a /*/
    <<47, 42, 32, 97, 32, 47, 42, 32, 98, 32, 42, 47>>,      \* /* a /* b */
    <<47, 42, 47, 42, 47, 42, 42, 47, 65>>,                  \* /*/*/**/A
    <<47, 42, 0, 42, 47>>,                                   \* /*<NUL>*/
    <<47, 42, 65, 0, 65, 42, 47, 65>>,                       \* /*A<NUL>A*/A
    <<47, 42, 0, 47, 42, 65, 42, 47>>,                       \* /*<NUL>/*A*/
    <<47, 47, 65, 0, 65, 10, 65>>,                           \* //A<NUL>A<newline>A
    <<65, 10, 9, 47, 42, 10, 65, 65>>,                       \* A<newline><tab>/*<newline>AA
    <<47, 42, 10, 32, 42, 47, 65>>,                          \* /*<newline> */A
    <<47, 42, 10, 32, 42, 65, 42, 47>>,                      \* /*<newline> *A*/
    <<35, 65, 47, 10, 47, 65>>,                              \* #A/<newline>/A
    <<65, 47, 65, 10, 9, 47>> }                              \* A/A<newline><tab>/

\* A short input split in every way, or a longer one read as one chunk.
CommentInit ==
  /\ \/ InitOn(SeqsUpTo(CommentBytes, MaxComment))
     \/ \E s \in CommentCorpus : InitWith(s, SplitAt(s, {}), FALSE)
  /\ call = NoCall

CommentNext ==
  \/ TokenizerNext
  \/ SetCommentStyle

CommentSpec == CommentInit /\ [][CommentNext]_vars

-----------------------------------------------------------------------------
(* The mini descriptor encoders of upb/mini_descriptor.c: DescState and the *)
(* three upb_MiniDescriptor_Encode functions.  A call walks through its     *)
(* encoder calls one by one, upb_DescState_Grow before each.  The encoder   *)
(* (upb_MtDataEncoder) and the arena are used through their interfaces      *)
(* only: an encoder call writes some bytes at the pointer it is given and   *)
(* returns the pointer behind them; an allocation gives a block or NULL.    *)

MaxEnumValues == 3

MaxFields == 2

\* upb/mini_table.h
kUpb_MtDataEncoder_MinSize == 16

\* A pointer: a block of the arena and an offset into it.  Block 0 is NULL.
NullPtr == [block |-> 0, off |-> 0]

PtrAdd(p, n) == [block |-> p.block, off |-> p.off + n]

\* A pointer that was never assigned.
Unset == [block |-> -1, off |-> 0]

\* A buffer of n bytes that nothing wrote: a byte holds the index of the
\* encoder call that wrote it, 0 when none did.
Blank(n) == [i \in 1..n |-> 0]

\* upb_DescState_Init: e.end is left as it was.
upb_DescState_Init ==
  [bufsize |-> kUpb_MtDataEncoder_MinSize * 2, buf |-> NullPtr,
   ptr |-> NullPtr, end |-> Unset]

\* d->ptr - d->buf: 0 while both are NULL.
Used(d) == d.ptr.off - d.buf.off

\* upb_DescState_Grow, "if (!d->buf)": got is what upb_Arena_Malloc returned.
\* s holds the DescState d, the bytes of its buffer and the result so far.
GrowFirst(s, got) ==
  IF s.d.buf # NullPtr THEN s
  ELSE IF got = NullPtr THEN [s EXCEPT !.ok = FALSE]
  ELSE [ok |-> TRUE,
        d |-> [bufsize |-> s.d.bufsize, buf |-> got, ptr |-> got,
               end |-> PtrAdd(got, s.d.bufsize)],
        mem |-> Blank(s.d.bufsize)]

\* oldbufsize - used < kUpb_MtDataEncoder_MinSize, in size_t: a used above
\* oldbufsize wraps around to a large difference.
TooFull(oldbufsize, used) ==
  used <= oldbufsize /\ oldbufsize - used < kUpb_MtDataEncoder_MinSize

\* The second "if" with a buffer that keeps its size.
GrowSecond_KeepsSize(s, oldbufsize, used, got) ==
  IF ~s.ok \/ ~TooFull(oldbufsize, used) THEN s
  ELSE IF got = NullPtr
    THEN [s EXCEPT !.ok = FALSE, !.d.buf = NullPtr]
  ELSE [ok |-> TRUE,
        d |-> [bufsize |-> s.d.bufsize, buf |-> got,
               ptr |-> PtrAdd(got, used),
               end |-> PtrAdd(got, s.d.bufsize)],
        mem |-> SubSeq(s.mem, 1, oldbufsize)]

\* The second "if": got is what upb_Arena_Realloc returned, a block that
\* starts with the oldbufsize bytes of the old one.
GrowSecond(s, oldbufsize, used, got) ==
  IF ~s.ok \/ ~TooFull(oldbufsize, used) THEN s
  ELSE IF got = NullPtr
    THEN [s EXCEPT !.ok = FALSE, !.d.bufsize = @ * 2, !.d.buf = NullPtr]
  ELSE [ok |-> TRUE,
        d |-> [bufsize |-> s.d.bufsize * 2, buf |-> got,
               ptr |-> PtrAdd(got, used),
               end |-> PtrAdd(got, s.d.bufsize * 2)],
        mem |-> SubSeq(s.mem, 1, oldbufsize) \o Blank(s.d.bufsize * 2 - oldbufsize)]

\* upb_DescState_Grow(d, a): oldbufsize and used are taken first.
upb_DescState_Grow(s, malloced, realloced) ==
  GrowSecond(GrowFirst([s EXCEPT !.ok = TRUE], malloced),
             s.d.bufsize, Used(s.d), realloced)

\* (uint32_t)n of an enum value number, an int32_t: here -65536 <= n < 65536.
AsUint32(n) == IF n >= 0 THEN U32(n) ELSE <<LimbBase + n, LimbBase - 1>>

upb_MiniDescriptor_CompareEnums(A, B) ==
  IF Less(AsUint32(A), AsUint32(B)) THEN -1
  ELSE IF Less(AsUint32(B), AsUint32(A)) THEN 1
  ELSE 0

upb_MiniDescriptor_CompareFields(A, B) ==
  IF A < B THEN -1 ELSE IF A > B THEN 1 ELSE 0

Compare(compar, a, b) ==
  IF compar = "upb_MiniDescriptor_CompareEnums"
    THEN upb_MiniDescriptor_CompareEnums(a, b)
    ELSE upb_MiniDescriptor_CompareFields(a, b)

\* x put into the sorted sequence s, before the first element it is below.
RECURSIVE Insert(_, _, _)
Insert(s, x, compar) ==
  IF s = <<>> THEN <<x>>
  ELSE IF Compare(compar, x, Head(s)) < 0 THEN <<x>> \o s
  ELSE <<Head(s)>> \o Insert(Tail(s), x, compar)

\* qsort(base, len, sizeof(void*), compar): the elements in the order of
\* compar; elements that compare equal carry the same number.
RECURSIVE qsort(_, _)
qsort(base, compar) ==
  IF base = <<>> THEN <<>>
  ELSE Insert(qsort(Tail(base), compar), Head(base), compar)

\* upb_EnumDef_IsSorted(e): the values are declared in the order of their
\* numbers as uint32_t.
upb_EnumDef_IsSorted(e) ==
  \A i \in 1..(Len(e) - 1) : ~Less(AsUint32(e[i + 1]), AsUint32(e[i]))

\* An encoder call to come: its name, its argument, and whether its result
\* is assigned to s.ptr.
Site(name, arg, assigned) == [name |-> name, arg |-> arg, assigned |-> assigned]

\* The loop over the values without the test of i.
RECURSIVE EnumLoop_NoIndexTest(_, _, _)
EnumLoop_NoIndexTest(values, i, previous) ==
  IF i > Len(values) THEN <<>>
  ELSE IF previous = AsUint32(values[i])
    THEN EnumLoop_NoIndexTest(values, i + 1, previous)
  ELSE <<Site("upb_MtDataEncoder_PutEnumValue", AsUint32(values[i]), TRUE)>>
         \o EnumLoop_NoIndexTest(values, i + 1, AsUint32(values[i]))

\* Either loop of upb_MiniDescriptor_EncodeEnum, from the i-th value on (the
\* first is 1 here, 0 in the code).
RECURSIVE EnumLoop(_, _, _)
EnumLoop(values, i, previous) ==
  IF i > Len(values) THEN <<>>
  ELSE IF i # 1 /\ previous = AsUint32(values[i])
    THEN EnumLoop(values, i + 1, previous)
  ELSE <<Site("upb_MtDataEncoder_PutEnumValue", AsUint32(values[i]), TRUE)>>
         \o EnumLoop(values, i + 1, AsUint32(values[i]))

\* The encoder calls of upb_MiniDescriptor_EncodeEnum that take a pointer.
EncodeEnumSites(e) ==
  (IF upb_EnumDef_IsSorted(e)
     THEN EnumLoop(e, 1, U32(0))
     ELSE EnumLoop(qsort(e, "upb_MiniDescriptor_CompareEnums"), 1, U32(0)))
    \o <<Site("upb_MtDataEncoder_EndEnum", 0, TRUE)>>

\* The encoder calls of upb_MiniDescriptor_EncodeField: neither result is
\* assigned.
EncodeFieldSites(f) ==
  <<Site("upb_MtDataEncoder_StartMessage", 0, FALSE),
    Site("upb_MtDataEncoder_PutField", f, FALSE)>>

\* "Encode the fields."
FieldSites(sorted) ==
  [i \in 1..Len(sorted) |-> Site("upb_MtDataEncoder_PutField", sorted[i], TRUE)]

\* "Encode the oneofs.", from the i-th oneof on.
RECURSIVE OneofSites(_, _)
OneofSites(oneofs, i) ==
  IF i > Len(oneofs) THEN <<>>
  ELSE <<Site("upb_MtDataEncoder_StartOneof", 0, TRUE)>>
         \o [j \in 1..Len(oneofs[i]) |->
               Site("upb_MtDataEncoder_PutOneofField", oneofs[i][j], TRUE)]
         \o OneofSites(oneofs, i + 1)

\* The encoder calls of upb_MiniDescriptor_EncodeMessage: the result of
\* upb_MtDataEncoder_StartMessage is not assigned.
EncodeMessageSites(m) ==
  <<Site("upb_MtDataEncoder_StartMessage", 0, FALSE)>>
    \o FieldSites(qsort(m.fields, "upb_MiniDescriptor_CompareFields"))
    \o OneofSites(m.oneofs, 1)

\* Whether the function allocates the array `sorted`.
AllocatesSorted(c) ==
  \/ c.fn = "upb_MiniDescriptor_EncodeMessage"
  \/ (c.fn = "upb_MiniDescriptor_EncodeEnum" /\ ~upb_EnumDef_IsSorted(c.def))

SitesOf(c) ==
  IF c.fn = "upb_MiniDescriptor_EncodeEnum" THEN EncodeEnumSites(c.def)
  ELSE IF c.fn = "upb_MiniDescriptor_EncodeField" THEN EncodeFieldSites(c.def)
  ELSE EncodeMessageSites(c.def)

\* -1, 0, 1 as enum value numbers; (uint32_t)-1 is the largest.
EnumNumbers == {-1, 0, 1}

FieldNumbers == {1, 2}

\* How many bytes an encoder call may write: none, one, and the most it may.
WriteSizes == {0, 1, kUpb_MtDataEncoder_MinSize}

\* A message: its fields in declaration order, and no oneof or one oneof of
\* all its fields.
MessageDefs ==
  {[fields |-> f, oneofs |-> o]
     : f \in SeqsUpTo(FieldNumbers, MaxFields), o \in {<<>>}}
    \cup {[fields |-> f, oneofs |-> <<f>>]
            : f \in SeqsUpTo(FieldNumbers, MaxFields)}

\* A call about to be made.
EncoderCall(fn, def) ==
  [fn |-> fn, def |-> def, pc |-> "start", sites |-> <<>>,
   s |-> [ok |-> TRUE, d |-> upb_DescState_Init, mem |-> <<>>],
   blocks |-> 0, log |-> <<>>, ret |-> "none", data |-> NullPtr, size |-> 0]

EncoderCalls ==
  {EncoderCall("upb_MiniDescriptor_EncodeEnum", e)
     : e \in SeqsUpTo(EnumNumbers, MaxEnumValues)}
    \cup {EncoderCall("upb_MiniDescriptor_EncodeField", f) : f \in FieldNumbers}
    \cup {EncoderCall("upb_MiniDescriptor_EncodeMessage", m) : m \in MessageDefs}

EncoderInit == InitOn({<<>>}) /\ call \in EncoderCalls

Encodes(c) ==
  /\ call' = c
  /\ op' = "Encode"
  /\ UNCHANGED <<t, input, errors, trace, data, ret, setters, ref>>

\* The function begins: upb_DescState_Init, and the array `sorted` when it
\* needs one; it returns false when the arena gives none.
EncodeStart ==
  /\ call.pc = "start"
  /\ \E got \in BOOLEAN :
       IF AllocatesSorted(call) /\ ~got
         THEN Encodes([call EXCEPT !.pc = "done", !.ret = "false"])
         ELSE Encodes([call EXCEPT !.pc = "grow", !.sites = SitesOf(call)])

\* What the arena may return for an allocation: NULL, or a new block; for a
\* reallocation also the old block, grown in place.
Malloced(c) == {NullPtr, [block |-> c.blocks + 1, off |-> 0]}

Realloced(c) == Malloced(c) \cup {c.s.d.buf}

\* if (!upb_DescState_Grow(&s, a)) return false;
DescStateGrow ==
  /\ call.pc = "grow"
  /\ \E m \in Malloced(call) : \E r \in Realloced(call) :
       \E g \in {upb_DescState_Grow(call.s, m, r)} :
         Encodes([call EXCEPT !.s = g,
                              !.blocks = IF g.d.buf.block > @
                                           THEN g.d.buf.block ELSE @,
                              !.pc = IF g.ok THEN "call" ELSE "done",
                              !.ret = IF g.ok THEN "none" ELSE "false"])

\* The bytes of a buffer after call k wrote n of them at offset off.
Written(mem, off, n, k) ==
  [i \in 1..Len(mem) |-> IF off < i /\ i <= off + n THEN k ELSE mem[i]]

\* The next encoder call: it writes n bytes at s.ptr and returns the pointer
\* behind them, which is assigned to s.ptr where the code does so.
EncoderWrite ==
  /\ call.pc = "call"
  /\ \E n \in WriteSizes :
       Encodes([call EXCEPT
         !.log = Append(@, [name |-> Head(call.sites).name,
                            arg |-> Head(call.sites).arg,
                            at |-> call.s.d.ptr, size |-> n]),
         !.s.mem = Written(@, call.s.d.ptr.off, n, Len(call.log) + 1),
         !.s.d.ptr = IF Head(call.sites).assigned THEN PtrAdd(@, n) ELSE @,
         !.sites = Tail(@),
         !.pc = IF Tail(call.sites) = <<>> THEN "return" ELSE "grow"])

\* *data = s.buf; *size = s.ptr - s.buf; return true;
EncodeReturn ==
  /\ call.pc = "return"
  /\ Encodes([call EXCEPT !.pc = "done", !.ret = "true",
                          !.data = call.s.d.buf, !.size = Used(call.s.d)])

EncoderNext ==
  \/ EncodeStart
  \/ DescStateGrow
  \/ EncoderWrite
  \/ EncodeReturn

EncoderSpec == EncoderInit /\ [][EncoderNext]_vars

ParseString ==
  /\ call.fn = "upb_Parse_String"
  /\ call.ret = "none"
  /\ \E s \in {upb_Parse_String(call.text, call.after, call.output)} :
       Returns([call EXCEPT !.ret = "void", !.result = s.output])

AppendUTF8Call ==
  /\ call.fn = "AppendUTF8"
  /\ call.ret = "none"
  /\ Returns([call EXCEPT !.ret = "void",
                          !.result = AppendUTF8(call.code_point, call.output)])

ParserNext ==
  \/ ParseInteger
  \/ ParseString
  \/ AppendUTF8Call

ParserSpec == ParserInit /\ [][ParserNext]_vars

-----------------------------------------------------------------------------
(* The reporting options: upb_Tokenizer_SetReportWhitespace and             *)
(* upb_Tokenizer_SetReportNewlines called again and again, in any order and *)
(* with any argument, between the upb_Tokenizer_Next calls.                 *)

\* How many times the two setters are called on one tokenizer.
MaxOptionCalls == 3

\* <tab><newline>A, AA<tab><newline>AA
OptionInputs == {<<9, 10, 65>>, <<65, 65, 9, 10, 65, 65>>}

OptionInit == InitOn(OptionInputs) /\ call = NoCall

\* A setter runs on the tokenizer and on the reference alike; call keeps its
\* name and argument and the two options it found.
OptionCall(fn, report, w, rw) ==
  /\ op # "Fini"
  /\ setters < MaxOptionCalls
  /\ Becomes(w)
  /\ ref' = [ref EXCEPT !.w = rw]
  /\ op' = "Set"
  /\ setters' = setters + 1
  /\ call' = [fn |-> fn, report |-> report,
              report_whitespace |-> t.report_whitespace,
              report_newlines |-> t.report_newlines]
  /\ UNCHANGED <<data, ret>>

ReportWhitespaceCall ==
  \E b \in BOOLEAN :
    OptionCall("upb_Tokenizer_SetReportWhitespace", b,
               upb_Tokenizer_SetReportWhitespace(World, b),
               upb_Tokenizer_SetReportWhitespace(ref.w, b))

ReportNewlinesCall ==
  \E b \in BOOLEAN :
    OptionCall("upb_Tokenizer_SetReportNewlines", b,
               upb_Tokenizer_SetReportNewlines(World, b),
               upb_Tokenizer_SetReportNewlines(ref.w, b))

OptionNext ==
  \/ TokenizerNext
  \/ ReportWhitespaceCall
  \/ ReportNewlinesCall

OptionSpec == OptionInit /\ [][OptionNext]_vars

-----------------------------------------------------------------------------
(* What the properties below are stated in. *)

\* The number of input bytes behind the reader, from the tokenizer's buffer
\* and the stream's count: until the stream is first asked, the buffer is
\* the in-memory span.
Position ==
  IF input.calls = 0 THEN t.buffer_pos
  ELSE Len(data) + input.handed - (t.buffer_size - t.buffer_pos)

\* The documented position rule, folded over a text from <<line, column>>.
RECURSIVE Fold(_, _)
Fold(s, lc) ==
  IF s = <<>> THEN lc
  ELSE Fold(Tail(s),
            IF Head(s) = 10 THEN <<lc[1] + 1, 0>>
            ELSE IF Head(s) = 9 THEN <<lc[1], 8 * ((lc[2] \div 8) + 1)>>
            ELSE <<lc[1], lc[2] + 1>>)

\* <<line, column>> of the byte after the first n bytes of the input
PositionOf(n) == Fold(SubSeq(Source, 1, n), <<0, 0>>)

TextTypes == {"IDENTIFIER", "INTEGER", "FLOAT", "STRING", "SYMBOL"}

-----------------------------------------------------------------------------
(* The claims. *)

\* C1: the tokens (type, text, line, column, end_column), the results of
\* Next() and the diagnostics are the same however the input is split into
\* chunks, a first chunk passed to New() as the in-memory span included:
\* after every operation they equal those of the same calls on the same
\* bytes read as a single chunk.
C1_ChunkingIsInvisible ==
  /\ t.current = ref.w.t.current
  /\ t.previous = ref.w.t.previous
  /\ errors = ref.w.errors
  /\ ret = ref.ret

\* A string token with a diagnostic, read from a span and two or more chunks.
C1_Witness ==
  /\ op = "Next"
  /\ t.current.type = "STRING"
  /\ Len(t.current.text) >= 3
  /\ errors # <<>>
  /\ data # <<>>
  /\ Len(input.chunks) >= 2
  /\ input.calls >= 3

\* C2: the text of every IDENTIFIER, INTEGER, FLOAT, STRING or SYMBOL token
\* Next() returns is the run of input bytes that ends at the reader and
\* starts at the byte whose position is (line, column), and end_column is
\* the column of the byte after it.
C2_TextIsTheSourceRange ==
  (op = "Next" /\ ret = "true" /\ t.current.type \in TextTypes) =>
    LET start == Position - Len(t.current.text)
    IN  /\ start >= 0
        /\ t.current.text = SubSeq(Source, start + 1, Position)
        /\ <<t.current.line, t.current.column>> = PositionOf(start)
        /\ t.current.end_column = PositionOf(Position)[2]

\* A token on a later line whose text was recorded across two refills.
C2_Witness ==
  /\ op = "Next"
  /\ ret = "true"
  /\ t.current.type = "IDENTIFIER"
  /\ Len(t.current.text) = 2
  /\ t.current.line >= 1
  /\ \E i \in 1..(Len(input.chunks) - 1) :
       /\ input.next > i + 1
       /\ input.chunks[i] = <<65>>
       /\ input.chunks[i + 1] = <<65>>

\* C3: both tokens are START until the first Next(); a Next() call leaves in
\* previous the token that was current when it was called, text included;
\* no other operation changes either token.
C3_PreviousIsLastCurrent ==
  /\ [](ret = "none" => t.current.type = "START" /\ t.previous.type = "START")
  /\ [][op' = "Next" => t'.previous = t.current]_vars
  /\ [][op' # "Next" => t'.previous = t.previous /\ t'.current = t.current]_vars

\* Two Next() calls have run and the earlier token, with its text, is previous.
C3_Witness ==
  /\ op = "Next"
  /\ t.previous.type = "IDENTIFIER"
  /\ Len(t.previous.text) >= 2
  /\ t.current.type = "IDENTIFIER"
  /\ t.current.line >= 1

\* C4: current is START until the first Next(); Next() returns false exactly
\* when it leaves current with type END, and then the text is empty and
\* line, column and end_column are the reader's; a Next() that returns true
\* leaves a type other than START and END.
C4_EndIffFalse ==
  /\ ret = "none" => t.current.type = "START"
  /\ ret # "none" => (ret = "false" <=> t.current.type = "END")
  /\ ret = "false" =>
       /\ t.current.text = <<>>
       /\ t.current.line = t.line
       /\ t.current.column = t.column
       /\ t.current.end_column = t.column
  /\ ret = "true" => t.current.type \notin {"START", "END"}

\* Next() returned false after trailing whitespace on a later line.
C4_Witness ==
  /\ ret = "false"
  /\ t.current.type = "END"
  /\ t.current.line >= 1
  /\ t.current.column >= 1
  /\ t.previous.type = "IDENTIFIER"

\* C5: whatever the input and the options, Next() called again and again
\* returns false in the end: a call that returns true has moved the reader
\* forward by at least one byte, the reader never passes the end of the
\* input, a call with the reader at the end returns false, and unless Fini()
\* ends the run a call returns false.
C5_NextReachesTheEnd ==
  /\ [][op' = "Next" /\ ret' = "true" => Position' > Position]_vars
  /\ [](Position <= Len(Source))
  /\ [][op' = "Next" /\ Position = Len(Source) => ret' = "false"]_vars
  /\ <>(ret = "false" \/ op = "Fini")

\* Next() returned false after an option was set and a string with a bad
\* escape ran into the end of the input.
C5_Witness ==
  /\ op = "Next"
  /\ ret = "false"
  /\ setters >= 1
  /\ Len(errors) >= 2
  /\ t.previous.type = "STRING"

\* C6: read_error is set exactly when the stream has returned a chunk of
\* size 0 and is never cleared; from then on the stream's Next is not called
\* again, current_char is 0, and every Next() returns false with current END.
C6_ReadErrorIsLatched ==
  /\ [](t.read_error <=> input.eof)
  /\ [](t.read_error => t.current_char = 0)
  /\ [](input.calls_after_eof = 0)
  /\ [][t.read_error => t'.read_error /\ input'.calls = input.calls]_vars
  /\ [][t.read_error /\ op' = "Next" =>
          ret' = "false" /\ t'.current.type = "END"]_vars

\* Next() was called again after it had already returned false at the end of
\* a chunked input.
C6_Witness ==
  /\ op = "Next"
  /\ ret = "false"
  /\ t.read_error
  /\ t.previous.type = "END"
  /\ t.current.type = "END"
  /\ Len(input.chunks) >= 2
  /\ input.calls = Len(input.chunks) + 1

\* C7: between operations, current_char is buffer[buffer_pos] while
\* buffer_pos < buffer_size; otherwise it is 0 and read_error is set; and
\* read_error is set only if the stream has returned a chunk of size 0.
C7_CurrentCharIsTheBufferByte ==
  /\ t.buffer_pos < t.buffer_size =>
       t.current_char = t.buffer[t.buffer_pos + 1]
  /\ ~(t.buffer_pos < t.buffer_size) => t.current_char = 0 /\ t.read_error
  /\ t.read_error => input.eof /\ input.last_size = 0

\* Next() stopped in the middle of a chunk that came from the stream after
\* the in-memory span.
C7_Witness ==
  /\ op = "Next"
  /\ data # <<>>
  /\ input.calls >= 1
  /\ t.buffer_pos > 0
  /\ t.buffer_pos < t.buffer_size
  /\ t.current_char = 65

\* C8: the reader's (line, column) is the fold of the position rule over the
\* bytes consumed so far (newline: column 0 and the next line; tab: the next
\* multiple of 8 above the column; any other byte: one more column); the
\* token A of <tab>A is at column 8, of <tab><tab>A at column 16, and the
\* token C of AB<tab>C at column 8.
C8_PositionIsTheFold ==
  /\ <<t.line, t.column>> = PositionOf(Position)
  /\ (Source = <<9, 65>> /\ t.current.text = <<65>>) => t.current.column = 8
  /\ (Source = <<9, 9, 65>> /\ t.current.text = <<65>>) => t.current.column = 16
  /\ (Source = <<65, 66, 9, 67>> /\ t.current.text = <<67>>) =>
       t.current.column = 8

\* The token C of AB<tab>C, read across a chunk boundary.
C8_Witness ==
  /\ Source = <<65, 66, 9, 67>>
  /\ Len(input.chunks) >= 2
  /\ t.current.type = "IDENTIFIER"
  /\ t.current.text = <<67>>
  /\ t.current.column = 8

StreamBytesConsumed ==
  IF Len(trace.consumed) > Len(data) THEN Len(trace.consumed) - Len(data) ELSE 0

\* C10: after Fini(), the bytes the stream has handed out less the bytes
\* given back through BackUp are the stream bytes the tokenizer consumed.
C10_FiniReturnsUnconsumed ==
  op = "Fini" => input.handed - input.backed = StreamBytesConsumed


\* C11: Fini() never calls BackUp with a count larger than the size of the
\* most recent chunk the stream's Next returned; while the stream's Next has
\* not been called (the reader is still in the in-memory span) Fini() does
\* not call BackUp at all.
C11_BackUpWithinLastChunk ==
  op = "Fini" =>
    /\ input.backed <= input.last_size
    /\ input.calls = 0 => input.backup_calls = 0


\* The base a text is in: 16 after 0x or 0X, 8 after a leading 0, 10 otherwise.
BaseOf(text) ==
  IF CharAt(text, 1) = 48 /\ CharAt(text, 2) \in {120, 88} THEN 16
  ELSE IF CharAt(text, 1) = 48 THEN 8
  ELSE 10

\* Where the digits of a text start: after 0x, or at the first byte.
DigitsAt(text) == IF BaseOf(text) = 16 THEN 3 ELSE 1

\* Every digit of the text is a digit of its base.
ValidInBase(text) ==
  \A i \in DigitsAt(text)..Len(text) : DigitValue(text[i]) < BaseOf(text)

\* acc * base^k + the value of the k digits from text[i] on, without wrap:
\* acc is six limbs wide, which holds every text of 23 digits or fewer.
RECURSIVE ValueFrom(_, _, _, _)
ValueFrom(text, i, base, acc) ==
  IF i > Len(text) THEN acc
  ELSE ValueFrom(text, i + 1, base, MulAdd(acc, base, DigitValue(text[i])))

\* The number a text denotes.
ValueOf(text) ==
  ValueFrom(text, DigitsAt(text), BaseOf(text), <<0, 0, 0, 0, 0, 0>>)

\* A uint64_t as a six-limb number.
Wide(x) == x \o <<0, 0>>

\* C12: for a text of digits valid in its base (16 after 0x/0X, 8 after a
\* leading 0, else 10), upb_Parse_Integer returns true exactly when the
\* text's value is at most max_value, and then *output is that value, never
\* a wrapped one; 18446744073709551615 and 0xFFFFFFFFFFFFFFFF give 2^64-1
\* and 18446744073709551616 fails.
C12_ParseIntegerIsExact ==
  (call.fn = "upb_Parse_Integer" /\ call.ret # "none"
     /\ ValidInBase(call.text)) =>
    /\ call.ret = "true" <=> ~Less(Wide(call.max_value), ValueOf(call.text))
    /\ call.ret = "true" => Wide(call.output) = ValueOf(call.text)
    /\ (call.text \in {Ascii(MaxDecimal), <<48, 120>> \o Ascii(MaxHex)}
          /\ call.max_value = UINT64_MAX) =>
         call.ret = "true" /\ call.output = UINT64_MAX
    /\ call.text = Ascii(Front(MaxDecimal) \o <<6>>) => call.ret = "false"

\* 18446744073709551616 was refused with max_value UINT64_MAX: the sum that
\* wraps around.
C12_Witness ==
  /\ call.fn = "upb_Parse_Integer"
  /\ call.text = Ascii(Front(MaxDecimal) \o <<6>>)
  /\ call.max_value = UINT64_MAX
  /\ call.ret = "false"


\* C13: when Next() returns an INTEGER token and has emitted no diagnostic
\* in that call, the token's text is digits valid in its base, and
\* upb_Parse_Integer(text, UINT64_MAX) returns true with the value of the
\* text, or returns false and the value is above 2^64-1.
C13_IntegerTokensParse ==
  [][(op' = "Next" /\ t'.current.type = "INTEGER" /\ errors' = errors) =>
       /\ ValidInBase(t'.current.text)
       /\ \E r \in {upb_Parse_Integer(t'.current.text, UINT64_MAX, U64(0))} :
            IF r.ret THEN Wide(r.output) = ValueOf(t'.current.text)
            ELSE Less(Wide(UINT64_MAX), ValueOf(t'.current.text))]_vars

\* The token 0xFFFFFFFFFFFFFFFF, scanned without a diagnostic, was parsed
\* to 2^64-1.
C13_Witness ==
  /\ op = "Parse"
  /\ errors = <<>>
  /\ t.current.type = "INTEGER"
  /\ t.current.text = <<48, 120>> \o Ascii(MaxHex)
  /\ call.fn = "upb_Parse_Integer"
  /\ call.text = t.current.text
  /\ call.ret = "true"
  /\ call.output = UINT64_MAX


\* C14: upb_Tokenizer_IsIdentifier is true of the text of every IDENTIFIER
\* token Next() returns; and an input that is, whole, a text of which
\* upb_Tokenizer_IsIdentifier is true is read as one IDENTIFIER token with
\* that text, and the Next() after it returns false with END.
C14_IdentifiersAreIsIdentifier ==
  /\ [](t.current.type = "IDENTIFIER" =>
          upb_Tokenizer_IsIdentifier(t.current.text, Len(t.current.text)))
  /\ []((call.fn = "upb_Tokenizer_IsIdentifier"
            /\ t.current.type = "IDENTIFIER" /\ call.text = t.current.text) =>
          call.ret = "true")
  /\ [][(upb_Tokenizer_IsIdentifier(Source, Len(Source))
            /\ t.current.type = "START" /\ op' = "Next") =>
          /\ ret' = "true"
          /\ t'.current.type = "IDENTIFIER"
          /\ t'.current.text = Source]_vars
  /\ [][(upb_Tokenizer_IsIdentifier(Source, Len(Source))
            /\ t.current.type = "IDENTIFIER" /\ op' = "Next") =>
          /\ ret' = "false"
          /\ t'.current.type = "END"]_vars

\* The input az_09, read from three or more chunks, came back as one
\* IDENTIFIER token, the test on its text was true, and the next Next()
\* returned false.
C14_Witness ==
  /\ Source = <<97, 122, 95, 48, 57>>
  /\ Len(input.chunks) >= 3
  /\ call.fn = "upb_Tokenizer_IsIdentifier"
  /\ call.text = Source
  /\ call.ret = "true"
  /\ t.previous.type = "IDENTIFIER"
  /\ t.previous.text = Source
  /\ t.current.type = "END"
  /\ ret = "false"


\* C15: upb_Parse_StringAppend, called on the text of any STRING token the
\* scanner returns (flagged with a diagnostic or not), returns: each turn of
\* its loop moves the pointer forward, so there are no more turns than the
\* text has bytes and the loop ends at the text's NUL; and no byte behind
\* that NUL is read.
C15_ParseStringStaysInText ==
  call.fn = "upb_Parse_StringAppend" =>
    /\ call.far <= strlen(call.text, 1) + 1
    /\ call.ptr = strlen(call.text, 1) + 1
    /\ call.loops < strlen(call.text, 1)

\* The unterminated token "\uD83D\ (a high surrogate, then a backslash at
\* the very end), scanned with diagnostics, was parsed up to its NUL.
C15_Witness ==
  /\ op = "Parse"
  /\ errors # <<>>
  /\ t.current.type = "STRING"
  /\ t.current.text = <<34, 92, 117, 68, 56, 51, 68, 92>>
  /\ call.fn = "upb_Parse_StringAppend"
  /\ call.text = t.current.text
  /\ call.far = Len(call.text) + 1


\* The code point of a surrogate pair, as a number
PairCodePoint(h, l) == 65536 + (h - 55296) * 1024 + (l - 56320)

\* The four-byte UTF-8 encoding of a code point in 0x10000..0x10FFFF
FourBytes(cp) ==
  <<240 + (cp \div 262144), 128 + ((cp \div 4096) % 64),
    128 + ((cp \div 64) % 64), 128 + (cp % 64)>>

\* C16: for a head surrogate h and a trail surrogate l, upb_Parse_String of
\* a literal in which \uHHHH is followed at once by \uLLLL puts in the
\* output, for the two escapes, exactly the four bytes of the UTF-8 encoding
\* of the one code point 0x10000 + ((h - 0xD800) << 10) + (l - 0xDC00), which
\* lies in 0x10000..0x10FFFF; "\uD83D\uDE00" gives F0 9F 98 80.
C16_SurrogatePairIsOneCodePoint ==
  (call.fn = "upb_Parse_String" /\ call.ret # "none") =>
    /\ PairCodePoint(call.head, call.trail) \in 65536..1114111
    /\ call.result
         = call.before \o FourBytes(PairCodePoint(call.head, call.trail))
             \o call.behind
    /\ call.text = <<34, 92, 117, 68, 56, 51, 68, 92, 117, 68, 69, 48, 48, 34>>
         => call.result = <<240, 159, 152, 128>>

\* "\uD83D\uDE00" was parsed.
C16_Witness ==
  /\ call.fn = "upb_Parse_String"
  /\ call.ret = "void"
  /\ call.text = <<34, 92, 117, 68, 56, 51, 68, 92, 117, 68, 69, 48, 48, 34>>
  /\ call.result = <<240, 159, 152, 128>>


\* The code point a well-formed UTF-8 sequence of one to four bytes encodes;
\* -1 for anything else.
Utf8Decode(b) ==
  IF \E i \in 2..Len(b) : b[i] \notin 128..191 THEN -1
  ELSE IF Len(b) = 1 /\ b[1] \in 0..127 THEN b[1]
  ELSE IF Len(b) = 2 /\ b[1] \in 192..223
    THEN (b[1] - 192) * 64 + (b[2] - 128)
  ELSE IF Len(b) = 3 /\ b[1] \in 224..239
    THEN (b[1] - 224) * 4096 + (b[2] - 128) * 64 + (b[3] - 128)
  ELSE IF Len(b) = 4 /\ b[1] \in 240..247
    THEN (b[1] - 240) * 262144 + (b[2] - 128) * 4096 + (b[3] - 128) * 64
           + (b[4] - 128)
  ELSE -1

\* The bytes the standard encoding takes for a code point up to 0x10FFFF
Utf8Length(cp) ==
  IF cp <= 127 THEN 1 ELSE IF cp <= 2047 THEN 2 ELSE IF cp <= 65535 THEN 3 ELSE 4

\* C17: AppendUTF8 leaves the bytes already in the output as they are and
\* appends, for a code point up to 0x10FFFF, its UTF-8 encoding (1, 2, 3 or
\* 4 bytes for up to 0x7F, 0x7FF, 0xFFFF, 0x10FFFF; decoded, the bytes give
\* the code point back), and for a larger one the ten characters \U and the
\* code point as eight lower-case hex digits.
C17_AppendUTF8Encodes ==
  (call.fn = "AppendUTF8" /\ call.ret # "none") =>
    LET cp == call.code_point
        n == Len(call.output)
        new == SubSeq(call.result, n + 1, Len(call.result))
    IN  /\ Len(call.result) >= n
        /\ SubSeq(call.result, 1, n) = call.output
        /\ LessEq(cp, <<65535, 16>>) =>
             /\ Len(new) = Utf8Length(cp[2] * 65536 + cp[1])
             /\ Utf8Decode(new) = cp[2] * 65536 + cp[1]
        /\ ~LessEq(cp, <<65535, 16>>) =>
             /\ Len(new) = 10
             /\ SubSeq(new, 1, 2) = <<92, 85>>
             /\ \A i \in 3..10 : new[i] \in 48..57 \cup 97..102
             /\ ValueFrom(new, 3, 16, <<0, 0>>) = cp

\* U+10FFFF was appended, as four bytes, to an output that held three.
C17_Witness ==
  /\ call.fn = "AppendUTF8"
  /\ call.ret = "void"
  /\ call.code_point = <<65535, 16>>
  /\ call.output = <<65, 0, 195>>
  /\ call.result = <<65, 0, 195, 244, 143, 191, 191>>

-----------------------------------------------------------------------------
\* The bytes a step of the tokenizer consumed before the text of its token.
Skipped == SubSeq(Source, Position + 1, Position' - Len(t'.current.text))

\* C18: Next() returns a WHITESPACE token only when report_whitespace is on
\* and a NEWLINE token only when report_whitespace and report_newlines are
\* both on.  With both off no Next() call ends on either type, and the
\* whitespace it passes over gives nothing but the position of what follows:
\* the token's text does not begin with it, its (line, column) is the fold of
\* the position rule over everything before it, and when whitespace is all
\* that was left the call reports the end without a diagnostic.
C18_WhitespaceOnlyWhenAsked ==
  [][op' = "Next" =>
       /\ t'.current.type = "WHITESPACE" => t.report_whitespace
       /\ t'.current.type = "NEWLINE" =>
            t.report_whitespace /\ t.report_newlines
       /\ (~t.report_whitespace /\ ~t.report_newlines) =>
            /\ t'.current.type \notin {"WHITESPACE", "NEWLINE"}
            /\ t'.current.text # <<>> => ~Whitespace(t'.current.text[1])
            /\ t'.current.type \in TextTypes =>
                 <<t'.current.line, t'.current.column>>
                   = PositionOf(Position' - Len(t'.current.text))
            /\ (\A i \in 1..Len(Skipped) : Whitespace(Skipped[i])) =>
                 /\ t'.current.type = "END" => errors' = errors
                 /\ t'.current.type \in TextTypes =>
                      <<t'.current.line, t'.current.column>>
                        = Fold(Skipped, PositionOf(Position))]_vars

\* With both options off a Next() call passed over a tab and a newline and
\* returned the identifier behind them, at the start of the second line.
C18_Witness ==
  /\ op = "Next"
  /\ ~t.report_whitespace
  /\ ~t.report_newlines
  /\ Source = <<65, 65, 9, 10, 65, 65>>
  /\ t.previous.type = "IDENTIFIER"
  /\ t.current.type = "IDENTIFIER"
  /\ t.current.line = 1
  /\ t.current.column = 0
  /\ Position = 6

-----------------------------------------------------------------------------
\* C19: whatever SetReportWhitespace and SetReportNewlines calls were made,
\* with whatever arguments, report_newlines implies report_whitespace.
\* SetReportWhitespace(false) turns both options off, SetReportWhitespace(true)
\* leaves report_newlines as it was, SetReportNewlines(true) turns both on and
\* SetReportNewlines(false) leaves report_whitespace as it was.
C19_NewlinesImplyWhitespace ==
  /\ [](t.report_newlines => t.report_whitespace)
  /\ [][(op' = "Set" /\ setters' = setters + 1) =>
         /\ call'.fn = "upb_Tokenizer_SetReportWhitespace" =>
              /\ t'.report_whitespace = call'.report
              /\ t'.report_newlines = (t.report_newlines /\ call'.report)
         /\ call'.fn = "upb_Tokenizer_SetReportNewlines" =>
              /\ t'.report_newlines = call'.report
              /\ t'.report_whitespace = (t.report_whitespace \/ call'.report)]_vars

\* SetReportWhitespace(false) was called, as the third call, on a tokenizer
\* that reported newlines.
C19_Witness ==
  /\ op = "Set"
  /\ setters = 3
  /\ call.fn = "upb_Tokenizer_SetReportWhitespace"
  /\ ~call.report
  /\ call.report_newlines
  /\ ~t.report_newlines
  /\ ~t.report_whitespace

-----------------------------------------------------------------------------
\* The class of bytes a WHITESPACE token is made of under the options.
RunClass == IF t.report_newlines THEN "WhitespaceNoNewline" ELSE "Whitespace"

\* C20: the text of a WHITESPACE or NEWLINE token is the input bytes that end
\* at the reader.  With report_newlines on, a WHITESPACE token is a non-empty
\* run of whitespace bytes other than '\n' that no such byte follows, and the
\* text of a NEWLINE token is exactly one '\n'.  With report_whitespace alone,
\* a WHITESPACE token is a non-empty run of whitespace bytes, '\n' among
\* them, that no whitespace byte follows.
C20_WhitespaceRunsAreMaximal ==
  [][(op' = "Next" /\ t'.current.type \in {"WHITESPACE", "NEWLINE"}) =>
       LET text == t'.current.text
           end == Position'
       IN  /\ ret' = "true"
           /\ Len(text) <= end
           /\ text = SubSeq(Source, end - Len(text) + 1, end)
           /\ t'.current.type = "NEWLINE" => text = <<10>>
           /\ t'.current.type = "WHITESPACE" =>
                /\ text # <<>>
                /\ \A i \in 1..Len(text) : InClass(RunClass, text[i])
                /\ end < Len(Source) => ~InClass(RunClass, Source[end + 1])]_vars

\* With report_newlines on, a tab was returned as WHITESPACE and the newline
\* behind it as NEWLINE.
C20_Witness ==
  /\ op = "Next"
  /\ t.report_newlines
  /\ t.previous.type = "WHITESPACE"
  /\ t.previous.text = <<9>>
  /\ t.current.type = "NEWLINE"
  /\ t.current.text = <<10>>

-----------------------------------------------------------------------------
Token(type, text, line, column, end_column) ==
  [type |-> type, line |-> line, column |-> column,
   end_column |-> end_column, text |-> text]

\* The tokens the claim lists for Sample, in order.
SampleTokens ==
  << Token("IDENTIFIER", <<102, 111, 111>>, 0, 0, 3),
     Token("INTEGER", <<49, 50, 51>>, 0, 4, 7),
     Token("INTEGER", <<48, 120, 49, 70>>, 0, 8, 12),
     Token("INTEGER", <<48, 55>>, 0, 13, 15),
     Token("FLOAT", <<48, 46, 53>>, 0, 16, 19),
     Token("FLOAT", <<49, 101, 49, 48>>, 0, 20, 24),
     Token("STRING", <<34, 97, 92, 110, 98, 34>>, 0, 25, 31),
     Token("IDENTIFIER", <<66, 65, 82>>, 1, 0, 3) >>

\* C21: on Sample with the default options, the k-th Next() call returns the
\* k-th token of the list (type, text, line, column, end_column), every call
\* after the eighth reports END with false, and no diagnostic is emitted.
C21_SampleTokens ==
  (Source = Sample /\ setters = 0 /\ op \in {"Next", "Parse"}) =>
    /\ errors = <<>>
    /\ \/ \E i \in 1..Len(SampleTokens) :
            /\ ret = "true"
            /\ t.current = SampleTokens[i]
            /\ t.previous = IF i = 1 THEN upb_Token_Init ELSE SampleTokens[i - 1]
       \/ /\ ret = "false"
          /\ t.current.type = "END"
          /\ t.current.text = <<>>
          /\ t.previous \in {SampleTokens[Len(SampleTokens)], t.current}

\* The ninth Next() call on Sample: END, behind the identifier BAR.
C21_Witness ==
  /\ Source = Sample
  /\ setters = 0
  /\ op = "Next"
  /\ ret = "false"
  /\ t.current.type = "END"
  /\ t.previous = SampleTokens[Len(SampleTokens)]
  /\ errors = <<>>

-----------------------------------------------------------------------------
\* The form of a numeric text: 0x or 0X first, or '0' and a digit first.
HexForm(text) == Len(text) >= 2 /\ text[1] = 48 /\ text[2] \in {120, 88}

OctalForm(text) == Len(text) >= 2 /\ text[1] = 48 /\ Digit(text[2])

DecimalForm(text) == ~HexForm(text) /\ ~OctalForm(text)

Contains(text, S) == \E i \in 1..Len(text) : text[i] \in S

\* C22: a numeric token is FLOAT exactly when its text starts with '.', or is
\* in decimal form and holds a '.' or an 'e'/'E', or allow_f_after_float is
\* set and it is in decimal form and ends with 'f'/'F'.  So a text that starts
\* with 0x/0X or with '0' and a digit is INTEGER; without allow_f_after_float
\* a decimal text holds no 'f'/'F'; no numeric text begins with '-' or '+'.
C22_FloatIffMarked ==
  (op = "Next" /\ t.current.type \in {"INTEGER", "FLOAT"}) =>
    LET text == t.current.text
    IN  /\ text # <<>>
        /\ t.current.type = "FLOAT" <=>
             \/ text[1] = 46
             \/ DecimalForm(text) /\ Contains(text, {46, 101, 69})
             \/ /\ t.allow_f_after_float
                /\ DecimalForm(text)
                /\ text[Len(text)] \in {102, 70}
        /\ (HexForm(text) \/ OctalForm(text)) => t.current.type = "INTEGER"
        /\ (~t.allow_f_after_float /\ DecimalForm(text)) =>
             ~Contains(text, {102, 70})
        /\ text[1] \notin {45, 43}

\* With allow_f_after_float set, 1f was returned as one FLOAT token.
C22_Witness ==
  /\ op = "Next"
  /\ t.allow_f_after_float
  /\ t.current.type = "FLOAT"
  /\ t.current.text = <<49, 102>>

-----------------------------------------------------------------------------
\* The longest run of decimal digits of the input that starts at byte i.
RECURSIVE DigitRun(_)
DigitRun(i) ==
  IF i <= Len(Source) /\ Digit(Source[i]) THEN <<Source[i]>> \o DigitRun(i + 1)
  ELSE <<>>

\* The index of the first 8 or 9 of a run that has one.
FirstNonOctal(run) ==
  CHOOSE k \in 1..Len(run) :
    /\ run[k] \in {56, 57}
    /\ \A j \in 1..(k - 1) : run[j] \notin {56, 57}

\* What a step added to the diagnostics.
NewErrors == SubSeq(errors', Len(errors) + 1, Len(errors'))

OctalMessage == "Numbers starting with leading zero must be in octal."

\* C23: when a token starts at a '0' that a digit follows, and the run of
\* digits there holds an 8 or a 9, Next() returns one INTEGER token whose text
\* is the whole run and emits the leading-zero error exactly once, at the
\* line and column of the first 8 or 9.  When the run holds neither, the error
\* is not emitted.
C23_LeadingZeroNeedsOctal ==
  [][(op' = "Next" /\ t'.current.type \in TextTypes) =>
       LET start == Position' - Len(t'.current.text)
           run == DigitRun(start + 1)
           octal == {k \in 1..Len(NewErrors) : NewErrors[k][3] = OctalMessage}
       IN  IF Len(run) >= 2 /\ run[1] = 48 /\ Contains(run, {56, 57})
             THEN /\ t'.current.type = "INTEGER"
                  /\ t'.current.text = run
                  /\ \E k \in octal :
                       /\ octal = {k}
                       /\ <<NewErrors[k][1], NewErrors[k][2]>>
                            = PositionOf(start + FirstNonOctal(run) - 1)
             ELSE octal = {}]_vars

\* 0789 was returned as one INTEGER token, with the error at the 8.
C23_Witness ==
  /\ op = "Next"
  /\ t.current.type = "INTEGER"
  /\ t.current.text = <<48, 55, 56, 57>>
  /\ errors = << <<0, 2, OctalMessage>> >>

-----------------------------------------------------------------------------
NeedSpaceMessage == "Need space between number and identifier."

SecondPointMessage == "Already saw decimal point or exponent; can't have another one."

NotIntegerMessage == "Hex and octal numbers must be integers."

PostCheckMessages == {NeedSpaceMessage, SecondPointMessage, NotIntegerMessage}

\* The post-check errors a step added, by their index in NewErrors.
PostChecks == {k \in 1..Len(NewErrors) : NewErrors[k][3] \in PostCheckMessages}

\* The byte after the token just returned: the byte at the reader; -1 at the end.
ByteAfter == IF Position' < Len(Source) THEN Source[Position' + 1] ELSE -1

\* C24: a Next() step that returns a numeric token adds at most one post-check
\* error.  The token's text ends at the reader, so the byte after it is not
\* part of it.  If that byte is a letter or '_' and require_space_after_number
\* is set, the error is "Need space between number and identifier."; otherwise,
\* if that byte is '.', it is "Already saw decimal point ..." for a FLOAT token
\* and "Hex and octal numbers must be integers." for an INTEGER token;
\* otherwise there is none: in particular none for a letter when
\* require_space_after_number is off.  Other steps add no post-check error.
C24_OnePostCheckError ==
  [][op' = "Next" =>
       IF t'.current.type \in {"INTEGER", "FLOAT"}
         THEN /\ Cardinality(PostChecks) <= 1
              /\ Len(t'.current.text) <= Position'
              /\ t'.current.text
                   = SubSeq(Source, Position' - Len(t'.current.text) + 1, Position')
              /\ {NewErrors[k][3] : k \in PostChecks}
                   = IF Letter(ByteAfter) /\ t.require_space_after_number
                       THEN {NeedSpaceMessage}
                     ELSE IF ByteAfter = 46
                       THEN IF t'.current.type = "FLOAT"
                              THEN {SecondPointMessage}
                              ELSE {NotIntegerMessage}
                     ELSE {}
         ELSE PostChecks = {}]_vars

\* With require_space_after_number off, 1 was returned before an x and no
\* error was emitted.
C24_Witness ==
  /\ op = "Next"
  /\ ~t.require_space_after_number
  /\ Source = <<49, 120>>
  /\ t.current.type = "INTEGER"
  /\ t.current.text = <<49>>
  /\ errors = <<>>

-----------------------------------------------------------------------------
NeedSpaceBeforePointMessage == "Need space between identifier and decimal point."

\* C25: a Next() step emits "Need space between identifier and decimal
\* point." exactly when the token it returns starts with '.' and a digit and
\* begins on the line and at the column where the token returned by the call
\* before, an IDENTIFIER, ended, which is when no byte lies between the two.
\* The error is then the first the step emits and the only one with this
\* message, it is reported at the line and column of the '.', and the step
\* still returns the FLOAT token.
C25_NeedSpaceBeforePoint ==
  [][op' = "Next" =>
       LET text == t'.current.text
           start == Position' - Len(text)
           at == {k \in 1..Len(NewErrors) : NewErrors[k][3] = NeedSpaceBeforePointMessage}
           point == /\ t'.current.type \in TextTypes
                    /\ Len(text) >= 2
                    /\ text[1] = 46
                    /\ Digit(text[2])
           behind == /\ t.current.type = "IDENTIFIER"
                     /\ t'.current.line = t.current.line
                     /\ t'.current.column = t.current.end_column
       IN  /\ (point /\ t.current.type = "IDENTIFIER") =>
                (behind <=> start = Position)
           /\ IF point /\ behind
                THEN /\ at = {1}
                     /\ <<NewErrors[1][1], NewErrors[1][2]>> = PositionOf(start)
                     /\ Source[start + 1] = 46
                     /\ t'.current.type = "FLOAT"
                     /\ ret' = "true"
                ELSE at = {}]_vars

\* foo.1: the error at the '.', and .1 returned as FLOAT behind foo.
C25_Witness ==
  /\ op = "Next"
  /\ Source = <<102, 111, 111, 46, 49>>
  /\ t.previous.type = "IDENTIFIER"
  /\ t.current.type = "FLOAT"
  /\ t.current.text = <<46, 49>>
  /\ errors = << <<0, 3, NeedSpaceBeforePointMessage>> >>

-----------------------------------------------------------------------------
EndOfFileMessage == "End-of-file inside block comment."

\* The index of the first newline of the input behind the first n bytes;
\* 0 when there is none.
NewlineBehind(n) ==
  IF \E i \in (n + 1)..Len(Source) : Source[i] = 10
    THEN CHOOSE i \in (n + 1)..Len(Source) :
           Source[i] = 10 /\ \A j \in (n + 1)..(i - 1) : Source[j] # 10
    ELSE 0

\* The reader is at "//".
AtLineComment ==
  /\ Position + 2 <= Len(Source)
  /\ Source[Position + 1] = 47
  /\ Source[Position + 2] = 47

\* C26: in C++ comment mode a line comment consumes every byte up to and
\* including the next newline, or to the end of the input: a Next() call made
\* with the reader at "//" returns a token that starts behind that newline,
\* or reports the end when there is none.  "End-of-file inside block
\* comment." is emitted only when the input is exhausted: the call that emits
\* it finds no token and reports the end.  A NUL among the bytes is a byte
\* as any other.
C26_CommentsEndAtTerminator ==
  [][(op' = "Next" /\ t.comment_style = "CPP") =>
       /\ AtLineComment =>
            IF NewlineBehind(Position) = 0
              THEN t'.current.type = "END" /\ Position' = Len(Source)
              ELSE Position' - Len(t'.current.text) >= NewlineBehind(Position)
       /\ (\E k \in 1..Len(NewErrors) : NewErrors[k][3] = EndOfFileMessage) =>
            t'.current.type = "END" /\ Position' = Len(Source)]_vars

-----------------------------------------------------------------------------
NestedMessage == "\"/*\" inside block comment.  Block comments cannot be nested."

\* The reader is at "/*".
AtBlockComment ==
  /\ Position + 2 <= Len(Source)
  /\ Source[Position + 1] = 47
  /\ Source[Position + 2] = 42

\* "*/" is at bytes i and i + 1 of the input; "/*" is.
ClosesAt(i) == i + 1 <= Len(Source) /\ Source[i] = 42 /\ Source[i + 1] = 47

OpensAt(i) == i + 1 <= Len(Source) /\ Source[i] = 47 /\ Source[i + 1] = 42

\* Where the first "*/" behind the "/*" at the reader is; behind the input
\* when there is none.
Closing ==
  IF \E i \in (Position + 3)..Len(Source) : ClosesAt(i)
    THEN CHOOSE i \in (Position + 3)..Len(Source) :
           ClosesAt(i) /\ \A j \in (Position + 3)..(i - 1) : ~ClosesAt(j)
    ELSE Len(Source) + 1

\* The "/*" inside the comment that begins at the reader.
Nested == {i \in (Position + 3)..(Closing - 1) : OpensAt(i)}

\* <<line, column>> a comes before <<line, column>> b.
Before(a, b) == a[1] < b[1] \/ (a[1] = b[1] /\ a[2] < b[2])

\* C27: a Next() call made in C++ comment mode with the reader at "/*" emits
\* the nested-comment error once for each "/*" between that "/*" and the
\* first "*/" behind it, at the '*' of that "/*", and no other before the
\* comment's end; no nested comment is opened, the '*' of an inner "/*" closes
\* the comment when a '/' follows it, and the comment yields no token: the
\* token the call returns starts behind the "*/", right behind when a letter
\* is there.
C27_NestedCommentIsAnError ==
  [][(op' = "Next" /\ t.comment_style = "CPP" /\ AtBlockComment) =>
       LET start == Position' - Len(t'.current.text)
           inside == {k \in 1..Len(NewErrors) :
                        /\ NewErrors[k][3] = NestedMessage
                        /\ Before(<<NewErrors[k][1], NewErrors[k][2]>>,
                                  PositionOf(Closing))}
       IN  /\ Cardinality(inside) = Cardinality(Nested)
           /\ \A i \in Nested : \E k \in inside :
                <<NewErrors[k][1], NewErrors[k][2]>> = PositionOf(i)
           /\ Closing <= Len(Source) =>
                /\ start >= Closing + 1
                /\ (Closing + 2 <= Len(Source) /\ Letter(Source[Closing + 2])) =>
                     /\ start = Closing + 1
                     /\ t'.current.type = "IDENTIFIER"
                     /\ \A k \in 1..Len(NewErrors) : NewErrors[k][3] = NestedMessage]_vars

-----------------------------------------------------------------------------
StartedHereMessage == "  Comment started here."

\* C28: a Next() call made in C++ comment mode with the reader at a "/*" that
\* no "*/" follows ("/*/" has none: the '*' belongs to the "/*") ends with
\* exactly two diagnostics more than the nested-comment errors of C27, the
\* last two and in this order: "End-of-file inside block comment." at the
\* line and column of the end of the input, where the reader stops, and
\* "  Comment started here." at the line and column of the '/' of the "/*".
\* The call reports the end (false, END).
C28_UnterminatedComment ==
  [][(op' = "Next" /\ t.comment_style = "CPP" /\ AtBlockComment
        /\ Closing > Len(Source)) =>
       LET n == Len(NewErrors)
           end == PositionOf(Len(Source))
           open == PositionOf(Position)
       IN  /\ n >= 2
           /\ NewErrors[n - 1] = <<end[1], end[2], EndOfFileMessage>>
           /\ NewErrors[n] = <<open[1], open[2], StartedHereMessage>>
           /\ \A k \in 1..(n - 2) : NewErrors[k][3] = NestedMessage
           /\ Position' = Len(Source)
           /\ <<t'.line, t'.column>> = end
           /\ ret' = "false"
           /\ t'.current.type = "END"]_vars

-----------------------------------------------------------------------------
\* The byte at the reader is c.
ReaderAt(c) == Position + 1 <= Len(Source) /\ Source[Position + 1] = c

\* The byte behind the byte at the reader is one of S.
FollowedBy(S) == Position + 2 <= Len(Source) /\ Source[Position + 2] \in S

\* The one-byte SYMBOL token for the byte at the reader.
SymbolAtReader(c) ==
  Token("SYMBOL", <<c>>, PositionOf(Position)[1], PositionOf(Position)[2],
        PositionOf(Position)[2] + 1)

\* The bytes from behind the byte at the reader to the next newline, or to
\* the end of the input, hold no NUL.
LineHasNoNul ==
  \A i \in (Position + 2)..Len(Source) :
    Source[i] = 0 => (NewlineBehind(Position) # 0 /\ NewlineBehind(Position) < i)

-----------------------------------------------------------------------------
CrossLineMessage == "String literals cannot cross line boundaries."

\* The byte that may follow a backslash as (the start of) an escape.
EscapeStart(c) == Escape(c) \/ OctalDigit(c) \/ c \in {120, 117, 85}

\* The text of a STRING token, read from byte i on, ends with its closing
\* quote: with the first byte, not escaped, that equals the opening quote.
RECURSIVE ClosedFrom(_, _)
ClosedFrom(text, i) ==
  IF i > Len(text) THEN FALSE
  ELSE IF text[i] = 92
    THEN ClosedFrom(text, IF i + 1 <= Len(text) /\ EscapeStart(text[i + 1])
                            THEN i + 2 ELSE i + 1)
  ELSE IF text[i] = text[1] THEN i = Len(text)
  ELSE ClosedFrom(text, i + 1)

\* C30: a Next() step that returns a STRING token emits "String literals
\* cannot cross line boundaries." exactly when allow_multiline_strings is
\* off, the text lacks its closing quote and the byte after it is a newline;
\* the error is the last of the step and is at the line and column of that
\* newline, and the text holds no newline.  With allow_multiline_strings on
\* the error is never emitted, a text without its closing quote does not stop
\* at a newline, and the reader's line and column count the newlines in the
\* text.  The newline left behind a STRING token is whitespace to the next
\* call: its token starts behind the newline, or is the WHITESPACE or NEWLINE
\* token that begins with it when those are reported.
C30_StringsAndNewlines ==
  [][op' = "Next" =>
       LET text == t'.current.text
           cross == {k \in 1..Len(NewErrors) : NewErrors[k][3] = CrossLineMessage}
           stopped == /\ ~ClosedFrom(text, 2)
                      /\ ByteAfter = 10
       IN  /\ IF t'.current.type = "STRING" /\ ~t.allow_multiline_strings /\ stopped
                THEN /\ cross = {Len(NewErrors)}
                     /\ <<NewErrors[Len(NewErrors)][1], NewErrors[Len(NewErrors)][2]>>
                          = PositionOf(Position')
                ELSE cross = {}
           /\ t'.current.type = "STRING" =>
                /\ Len(text) <= Position'
                /\ text = SubSeq(Source, Position' - Len(text) + 1, Position')
                /\ ~t.allow_multiline_strings => ~Contains(text, {10})
                /\ t.allow_multiline_strings => ~stopped
                /\ <<t'.line, t'.column>> = PositionOf(Position')
           /\ (t.current.type = "STRING" /\ ReaderAt(10)) =>
                IF t.report_whitespace
                  THEN /\ t'.current.type
                            = IF t.report_newlines THEN "NEWLINE" ELSE "WHITESPACE"
                       /\ t'.current.text # <<>>
                       /\ t'.current.text[1] = 10
                       /\ Position' - Len(t'.current.text) = Position
                  ELSE /\ Position' - Len(t'.current.text) > Position
                       /\ t'.current.type \notin {"WHITESPACE", "NEWLINE"}]_vars

\* "a<newline>b" with allow_multiline_strings off: the token "a stops before
\* the newline, with the error at the newline.
C30_Witness ==
  /\ op = "Next"
  /\ ~t.allow_multiline_strings
  /\ Source = <<34, 97, 10, 98, 34>>
  /\ t.current.type = "STRING"
  /\ t.current.text = <<34, 97>>
  /\ errors = << <<0, 2, CrossLineMessage>> >>

-----------------------------------------------------------------------------
\* The diagnostics a step added at or behind the start of the token it
\* returned.
DuringToken ==
  {k \in 1..Len(NewErrors) :
     ~Before(<<NewErrors[k][1], NewErrors[k][2]>>,
             <<t'.current.line, t'.current.column>>)}

\* C31: a STRING token returned by a Next() call that emitted no diagnostic
\* from the token's start on has at least two bytes, begins with '"' or "'"
\* and ends with the same byte, and holds that byte in between only directly
\* behind a backslash; read escape by escape, the last byte is its closing
\* quote.
C31_CleanStringsAreQuoted ==
  [][(op' = "Next" /\ t'.current.type = "STRING" /\ DuringToken = {}) =>
       LET text == t'.current.text
       IN  /\ Len(text) >= 2
           /\ text[1] \in {34, 39}
           /\ text[Len(text)] = text[1]
           /\ \A i \in 2..(Len(text) - 1) : text[i] = text[1] => text[i - 1] = 92
           /\ ClosedFrom(text, 2)]_vars

\* 'a\'b' was returned with no diagnostic.
C31_Witness ==
  /\ op = "Next"
  /\ t.current.type = "STRING"
  /\ t.current.text = <<39, 97, 92, 39, 98, 39>>
  /\ errors = <<>>

-----------------------------------------------------------------------------
\* The backslash at byte i of a text starts an escape: an even number of
\* backslashes stands directly before it.
RECURSIVE Introduces(_, _)
Introduces(text, i) ==
  /\ text[i] = 92
  /\ (i = 1 \/ text[i - 1] # 92 \/ ~Introduces(text, i - 1))

\* Byte i of a text starts \U and eight hex digits.
LongEscapeAt(text, i) ==
  /\ i + 9 <= Len(text)
  /\ Introduces(text, i)
  /\ text[i + 1] = 85
  /\ \A k \in 2..9 : HexDigit(text[i + k])

\* The eight hex digits behind the \U at byte i denote more than 0x10FFFF.
AboveLastCodePoint(text, i) ==
  ~(/\ text[i + 2] = 48
    /\ text[i + 3] = 48
    /\ (text[i + 4] = 48 \/ (text[i + 4] = 49 /\ text[i + 5] = 48)))

LongEscapeMessage ==
  "Expected eight hex digits up to 10ffff for \\U escape sequence"

\* C32: a Next() step that returns a STRING token holding \U and eight hex
\* digits that denote a value above 0x10FFFF emits "Expected eight hex digits
\* up to 10ffff for \U escape sequence".
C32_LongEscapeUpTo10FFFF ==
  [][(op' = "Next" /\ t'.current.type = "STRING") =>
       \A i \in 1..Len(t'.current.text) :
         (LongEscapeAt(t'.current.text, i)
            /\ AboveLastCodePoint(t'.current.text, i)) =>
           \E k \in 1..Len(NewErrors) : NewErrors[k][3] = LongEscapeMessage]_vars

-----------------------------------------------------------------------------
\* A control byte that is no whitespace, or NUL.
ControlByte(c) == c = 0 \/ (1 <= c /\ c <= 31 /\ ~Whitespace(c))

\* The first byte from byte i on that is no such byte.
RECURSIVE ControlRunEnd(_)
ControlRunEnd(i) ==
  IF i <= Len(Source) /\ ControlByte(Source[i]) THEN ControlRunEnd(i + 1) ELSE i

\* The reader is at such a byte, with more input behind it.
AtControlByte ==
  Position + 1 < Len(Source) /\ ControlByte(Source[Position + 1])

ControlMessage == "Invalid control characters encountered in text."

\* C33: a Next() call made with the reader at a control byte (0x01..0x1F
\* other than \t \n \r \v \f) or at a NUL that more input follows first emits
\* "Invalid control characters encountered in text." at that byte's line and
\* column and skips the maximal run of such bytes only: when a whitespace
\* byte follows the run and report_whitespace is on, the call emits nothing
\* else and returns a WHITESPACE or NEWLINE token that starts right behind
\* the run.
C33_ControlRunsStopAtWhitespace ==
  [][(op' = "Next" /\ AtControlByte) =>
       LET end == ControlRunEnd(Position + 1)
       IN  /\ NewErrors # <<>>
           /\ NewErrors[1] = <<t.line, t.column, ControlMessage>>
           /\ (end <= Len(Source) /\ Whitespace(Source[end])
                 /\ t.report_whitespace) =>
                /\ Len(NewErrors) = 1
                /\ t'.current.type \in {"WHITESPACE", "NEWLINE"}
                /\ Position' - Len(t'.current.text) = end - 1]_vars

-----------------------------------------------------------------------------
\* 4 for 'u', 8 for 'U'.
DigitsWanted(key) == IF key = 117 THEN 4 ELSE 8

\* A text of an opening quote, one \u or \U and bytes without a backslash.
OneUnicodeEscape(text) ==
  /\ Len(text) >= 3
  /\ text[2] = 92
  /\ text[3] \in {117, 85}
  /\ \A i \in 4..Len(text) : text[i] # 92

\* The bytes behind the 'u' or 'U' of such a text start with as many hex
\* digits as the escape wants.
HasItsDigits(text) ==
  /\ Len(text) >= 3 + DigitsWanted(text[3])
  /\ \A i \in 4..(3 + DigitsWanted(text[3])) : HexDigit(text[i])

\* The bytes of a text from byte i on, without the closing quote.
Plain(text, i) ==
  IF Len(text) >= i /\ text[Len(text)] = text[1]
    THEN SubSeq(text, i, Len(text) - 1)
    ELSE SubSeq(text, i, Len(text))

\* C34: when upb_Parse_StringAppend is given a text whose \u (or \U) is
\* followed by fewer than 4 (or 8) hex digits, cut short by the end of the
\* text or by a byte that is no hex digit, it appends the 'u' (or 'U') itself
\* and then the bytes behind it as ordinary text.
C34_ShortEscapeIsLiteral ==
  [][(op' = "Parse" /\ call'.fn = "upb_Parse_StringAppend"
        /\ OneUnicodeEscape(call'.text) /\ ~HasItsDigits(call'.text)) =>
       call'.ret = Plain(call'.text, 3)]_vars

-----------------------------------------------------------------------------
\* "\uD83Dzz"
LoneSurrogate == <<34, 92, 117, 68, 56, 51, 68, 122, 122, 34>>

\* The parser has returned from that text, appending to an empty output.
ParsedLoneSurrogate ==
  /\ op = "Parse"
  /\ call.fn = "upb_Parse_StringAppend"
  /\ call.text = LoneSurrogate
  /\ call.output = <<>>

\* C35 as first stated: parsing the token "\uD83Dzz" gives the literal 'u'
\* followed by D83Dzz.
C35_LoneSurrogateIsLiteral ==
  ParsedLoneSurrogate => call.ret = <<117, 68, 56, 51, 68, 122, 122>>

\* C35: parsing the token "\uD83Dzz" into an empty output ends at the text's
\* terminating NUL without reading behind it, and gives the three UTF-8 bytes
\* ED A0 BD of the code point 0xD83D followed by zz.
C35_LoneSurrogateIsEncoded ==
  ParsedLoneSurrogate =>
    /\ call.ret = <<237, 160, 189, 122, 122>>
    /\ call.ptr = Len(LoneSurrogate) + 1
    /\ call.far <= Len(LoneSurrogate) + 1

C35_Witness ==
  /\ ParsedLoneSurrogate
  /\ call.ret = <<237, 160, 189, 122, 122>>

-----------------------------------------------------------------------------
\* C36: upb_Parse_Integer returns false when a byte of the text is no digit
\* of its base, when the text's value is above 2^64-1 and when it is above
\* max_value, and whenever it returns false *output holds what it held
\* before the call; it returns true in no other case, and then *output is
\* the text's value.
C36_FailureLeavesOutput ==
  [][(call.fn = "upb_Parse_Integer" /\ call.ret = "none") =>
       /\ call'.ret \in {"true", "false"}
       /\ ~ValidInBase(call.text) => call'.ret = "false"
       /\ (ValidInBase(call.text)
             /\ Less(Wide(UINT64_MAX), ValueOf(call.text))) =>
            call'.ret = "false"
       /\ (ValidInBase(call.text)
             /\ Less(Wide(call.max_value), ValueOf(call.text))) =>
            call'.ret = "false"
       /\ call'.ret = "false" => call'.output = call.output
       /\ call'.ret = "true" =>
            /\ ValidInBase(call.text)
            /\ Wide(call'.output) = ValueOf(call.text)]_vars

\* 19 was refused with max_value 16, and *output still holds 0x0004000300020001.
C36_Witness ==
  /\ call.fn = "upb_Parse_Integer"
  /\ call.text = <<49, 57>>
  /\ call.max_value = U64(16)
  /\ call.ret = "false"
  /\ call.output = <<1, 2, 3, 4>>

-----------------------------------------------------------------------------
\* The offset behind the bytes of the k-th encoder call of the running
\* function; 0 for k = 0.
EndOf(k) == IF k = 0 THEN 0 ELSE call.log[k].at.off + call.log[k].size

\* The bytes all its encoder calls so far have written.
RECURSIVE BytesWritten(_)
BytesWritten(k) == IF k = 0 THEN 0 ELSE call.log[k].size + BytesWritten(k - 1)

\* C37: in upb_MiniDescriptor_EncodeEnum, EncodeField and EncodeMessage every
\* encoder call writes where the call before it ended, the first at the
\* start of the buffer, and s.ptr is the pointer the latest call returned;
\* so when the function returns true no byte a call wrote has been written
\* over, data is the buffer and size is the number of bytes written.
C37_CallsWriteEndToEnd ==
  /\ \A k \in 1..Len(call.log) : call.log[k].at.off = EndOf(k - 1)
  /\ call.pc \in {"grow", "return"} =>
       Used(call.s.d) = EndOf(Len(call.log))
  /\ call.ret = "true" =>
       /\ call.data = call.s.d.buf
       /\ call.size = BytesWritten(Len(call.log))
       /\ \A k \in 1..Len(call.log) :
            \A i \in (call.log[k].at.off + 1)..EndOf(k) : call.s.mem[i] = k

-----------------------------------------------------------------------------
\* upb_MiniDescriptor_EncodeEnum has returned true.
EnumEncoded ==
  call.fn = "upb_MiniDescriptor_EncodeEnum" /\ call.ret = "true"

\* C38: when upb_MiniDescriptor_EncodeEnum returns true, its encoder calls
\* were upb_MtDataEncoder_PutEnumValue once for each distinct value number of
\* the enum, in strictly ascending order of the numbers as uint32_t, whatever
\* the order of declaration and however often a number is declared, 0
\* included, and then upb_MtDataEncoder_EndEnum once, last.
C38_EachEnumValueOnce ==
  EnumEncoded =>
    LET n == Len(call.log)
    IN  /\ n >= 1
        /\ call.log[n].name = "upb_MtDataEncoder_EndEnum"
        /\ \A k \in 1..(n - 1) :
             call.log[k].name = "upb_MtDataEncoder_PutEnumValue"
        /\ \A k \in 1..(n - 2) : Less(call.log[k].arg, call.log[k + 1].arg)
        /\ {call.log[k].arg : k \in 1..(n - 1)}
             = {AsUint32(call.def[i]) : i \in 1..Len(call.def)}

\* The enum declared as 0, -1, 0 was encoded as 0, 0xFFFFFFFF and the end.
C38_Witness ==
  /\ EnumEncoded
  /\ call.def = <<0, -1, 0>>
  /\ Len(call.log) = 3
  /\ call.log[1].arg = <<0, 0>>
  /\ call.log[2].arg = <<65535, 65535>>

-----------------------------------------------------------------------------
\* A step of upb_DescState_Grow that returned true.
GrowSucceeded == call.pc = "grow" /\ call'.pc = "call"

\* C39: after every upb_DescState_Grow that returns true, the buffer is not
\* NULL, ptr is in it at or behind buf, e.end is buf + bufsize, the buffer
\* holds bufsize bytes and at least kUpb_MtDataEncoder_MinSize of them are
\* free from ptr on; the bytes before ptr are the ones that were there
\* before the call, at the same offsets.  A upb_DescState_Grow that returns
\* false, because the arena gave no memory, makes the encoding function
\* return false.
C39_GrowKeepsRoom ==
  [][(call.pc = "grow") =>
       /\ call'.pc \in {"call", "done"}
       /\ call'.pc = "done" =>
            /\ call'.ret = "false"
            /\ call'.s.d.buf = NullPtr
       /\ GrowSucceeded =>
            LET d == call'.s.d
            IN  /\ d.buf # NullPtr
                /\ d.buf.off = 0
                /\ d.ptr.block = d.buf.block
                /\ d.buf.off <= d.ptr.off
                /\ d.end = PtrAdd(d.buf, d.bufsize)
                /\ Len(call'.s.mem) = d.bufsize
                /\ d.end.off - d.ptr.off >= kUpb_MtDataEncoder_MinSize
                /\ Used(d) = Used(call.s.d)
                /\ \A i \in 1..Used(d) : call'.s.mem[i] = call.s.mem[i]]_vars

\* A buffer that holds 32 bytes was moved to a new block of 64 bytes.
C39_Witness ==
  /\ call.pc = "call"
  /\ call.s.d.bufsize = 4 * kUpb_MtDataEncoder_MinSize
  /\ call.s.d.buf.block = 2
  /\ Used(call.s.d) = 2 * kUpb_MtDataEncoder_MinSize
  /\ call.s.mem[2 * kUpb_MtDataEncoder_MinSize] = 2

====
